---- MODULE Spec2Model ----
(***************************************************************************)
(* A model of the query engine: the descriptor pipeline over tabular rows  *)
(* (query_executor.py), the external sort-merge for streaming order-by     *)
(* (merge_sort.py), the chained operators over Table (sql_component) and   *)
(* the document pipeline (nosql_executor.py).                              *)
(***************************************************************************)
EXTENDS Integers, Sequences, FiniteSets, TLC

VARIABLES
    \* ---- streaming order-by (QueryExecutor._execute_chunked, merge_sort.py)
    file,         \* the data rows of the source file, in file order
    chunk_size,   \* self.chunk_size
    operations,   \* the descriptor list handed to the call
    entry,        \* how the sort-merge is entered: through QueryExecutor.execute
                  \* or by calling the module function with the executor
    pc,           \* position in the call
    consumed,     \* number of source rows the chunk generator has yielded
    temp_files,   \* list of spilled batches: [rows, rd] (rd = lines read so far)
    disk,         \* indices of the spill files that exist on disk
    heap,         \* the merge heap, a set of (key, idx, row) entries
    results,      \* the rows returned so far / in the end
    outcome,      \* "running" | "result" | "AttributeError" | "TypeError"
    \* ---- one executor over a loaded source (in-memory pipelines)
    engine,       \* "sql": QueryExecutor over dict rows; "chain": QueryEngine
                  \* over a Table; "nosql": NoSQLExecutor over documents
    source,       \* self.data / self.table: rows, a Table, or a list of documents
    joined,       \* self.join_data / the right table / the secondary collection
    objects,      \* the heap of document objects (nosql)
    last_op,      \* the operator applied last
    prev,         \* the result that operator was applied to
    current,      \* the current result
    raised,       \* the error the operator raised, "" for none
    nops,         \* number of operators applied
    \* ---- the operation list of an engine object (SQLEngine, NoSQLEngine)
    api,          \* the engine class
    oplist,       \* self.operations
    oplist_prev,  \* self.operations before the last call
    call,         \* the last call: its name and argument
    \* ---- the text parsers (JSONParser, CSVParser, DataTypeInferrer)
    text,         \* the input text, a sequence of characters
    parsed,       \* what the parser returned or raised
    \* ---- the batch generators (ChunkReader.read_chunks, parse_file_in_chunks)
    file_lines,   \* the lines of the file, without their line ends
    gen,          \* the generator: its arguments and its local variables
    batches,      \* the batches it has yielded, in yield order
    \* ---- an engine object and its load_data calls (SQLEngine, NoSQLEngine)
    self,         \* the fields of the engine object
    self_before,  \* its fields when load_data was last called
    load,         \* the number of load_data calls and what the last returned
    temp_store,   \* the temporary files the streaming loads have written
    executor,     \* the arguments of the executor the last execute() built
    \* ---- JSONParser.parse_file step by step
    cursor,       \* self.index
    stack,        \* the calls in progress, the innermost last
    ret           \* the value the call that just returned has returned

sortVars == <<file, chunk_size, operations, entry, pc, consumed, temp_files,
              disk, heap, results, outcome>>
pipeVars == <<engine, source, joined, objects, last_op, prev, current, raised, nops>>

listVars == <<api, oplist, oplist_prev, call>>
textVars == <<text, parsed>>
streamVars == <<file_lines, gen, batches>>
loadVars == <<self, self_before, load, temp_store, executor>>
parseVars == <<cursor, stack, ret>>

vars == <<sortVars, pipeVars, listVars, textVars, streamVars, loadVars, parseVars>>

-----------------------------------------------------------------------------
(* Bounds of the model. *)
MaxRows == 3
MaxChunk == 2
MaxLimit == 2

-----------------------------------------------------------------------------
(* Python values: None, a number (int/float), a string. *)
None == [t |-> "null"]
Num(n) == [t |-> "num", n |-> n]
Str(s) == [t |-> "str", s |-> s]

\* The strings the model uses, in Python's str ordering (code point order):
\* "10" < "2" < "A" < "B" < "None" < "x".
StrOrder == <<"10", "2", "A", "B", "None", "x">>
StrRank(s) == CHOOSE i \in 1..Len(StrOrder) : StrOrder[i] = s
NumericStrings == {"10", "2"}
NumOf(s) == IF s = "10" THEN 10 ELSE 2

\* float(val): the number, or "ValueError"/"TypeError" (caught by the callers'
\* bare except).
CanFloat(val) == val.t = "num" \/ (val.t = "str" /\ val.s \in NumericStrings)
PyFloat(val) == IF val.t = "num" THEN val ELSE Num(NumOf(val.s))

\* str(val) for None and strings.
PyStr(val) == IF val.t = "null" THEN Str("None") ELSE val

\* a < b in Python for numbers and strings; mixed operands raise TypeError.
Comparable(a, b) == a.t = b.t /\ a.t \in {"num", "str"}
PyLess(a, b) == IF a.t = "num" THEN a.n < b.n ELSE StrRank(a.s) < StrRank(b.s)

\* dict.get(col)
Get(row, col) == IF col \in DOMAIN row THEN row[col] ELSE None

Min(a, b) == IF a < b THEN a ELSE b
Max(a, b) == IF a > b THEN a ELSE b

\* A slice that keeps one row too many.
PySliceOneMore(seq, n) == SubSeq(seq, 1, IF n + 1 < Len(seq) THEN n + 1 ELSE Len(seq))

\* seq[:n], Python slice semantics (a negative n counts from the end).
PySlice(seq, n) ==
    LET stop == IF n < 0 THEN Max(Len(seq) + n, 0) ELSE Min(n, Len(seq))
    IN  SubSeq(seq, 1, stop)

-----------------------------------------------------------------------------
(* Order-by: sorted(data, key=get_sort_key, reverse=reverse).              *)

\* get_sort_key / sort_key: float(val), else str(val).
sort_key(row, column) ==
    LET val == Get(row, column)
    IN  IF CanFloat(val) THEN PyFloat(val) ELSE PyStr(val)

\* A sort (or a heap push) compares keys of different types: TypeError.
MixedKeys(rows, column) ==
    \E i, j \in 1..Len(rows) :
        sort_key(rows[i], column).t # sort_key(rows[j], column).t

\* list.sort / sorted are stable: x is placed behind every element that does
\* not sort after it (reverse=True keeps the order of equal elements too).
InsertStable(sorted, x, column, reverse) ==
    LET kx == sort_key(x, column)
        After(e) == IF reverse THEN PyLess(sort_key(e, column), kx)
                               ELSE PyLess(kx, sort_key(e, column))
        p == IF \E i \in 1..Len(sorted) : After(sorted[i])
             THEN (CHOOSE i \in 1..Len(sorted) :
                      After(sorted[i]) /\ \A j \in 1..(i-1) : ~After(sorted[j])) - 1
             ELSE Len(sorted)
    IN  SubSeq(sorted, 1, p) \o <<x>> \o SubSeq(sorted, p + 1, Len(sorted))

RECURSIVE PySorted(_, _, _)
PySorted(rows, column, reverse) ==
    IF rows = <<>> THEN <<>>
    ELSE InsertStable(PySorted(SubSeq(rows, 1, Len(rows) - 1), column, reverse),
                      rows[Len(rows)], column, reverse)

-----------------------------------------------------------------------------
(* The descriptor pipeline of query_executor.py.  A row is a dict (a        *)
(* function from column names to values); an operator returns its rows or   *)
(* raises.                                                                  *)
Ok(rows) == [err |-> "", rows |-> rows]
Raise(e) == [err |-> e, rows |-> <<>>]

\* _apply_select: {col: row.get(col) for col in columns}
select_row(row, columns) ==
    [c \in {columns[i] : i \in 1..Len(columns)} |-> Get(row, c)]

_apply_select(data, op) ==
    Ok([i \in 1..Len(data) |-> select_row(data[i], op.columns)])

\* {**row, **join_row}
Merged(row, join_row) ==
    [c \in DOMAIN row \cup DOMAIN join_row |->
        IF c \in DOMAIN join_row THEN join_row[c] ELSE row[c]]

\* join_index[key]: the rows of the join table under that key, in table order.
JoinBucket(join_data, join_key, key) ==
    SelectSeq(join_data, LAMBDA r : Get(r, join_key) = key)

RECURSIVE JoinLeftRows(_, _, _, _)
JoinLeftRows(data, join_data, op, i) ==
    IF i > Len(data) THEN <<>>
    ELSE LET row == data[i]
             bucket == JoinBucket(join_data, op.join_key, Get(row, op.main_key))
             out == IF bucket # <<>>
                    THEN [j \in 1..Len(bucket) |-> Merged(row, bucket[j])]
                    ELSE IF op.join_type = "LEFT" THEN <<row>> ELSE <<>>
         IN  out \o JoinLeftRows(data, join_data, op, i + 1)

\* RIGHT: for every key of the index, in first-insertion order, the merged
\* rows of the matching main rows, or the join rows alone when none matches.
RECURSIVE JoinRightRows(_, _, _, _)
JoinRightRows(data, join_data, op, i) ==
    IF i > Len(join_data) THEN <<>>
    ELSE LET key == Get(join_data[i], op.join_key)
             first == \A j \in 1..(i-1) : Get(join_data[j], op.join_key) # key
             bucket == JoinBucket(join_data, op.join_key, key)
             hits == SelectSeq(data, LAMBDA r : Get(r, op.main_key) = key)
             RECURSIVE Pairs(_)
             Pairs(h) == IF h > Len(hits) THEN <<>>
                         ELSE [j \in 1..Len(bucket) |-> Merged(hits[h], bucket[j])]
                              \o Pairs(h + 1)
             out == IF ~first THEN <<>>
                    ELSE IF hits # <<>> THEN Pairs(1) ELSE bucket
         IN  out \o JoinRightRows(data, join_data, op, i + 1)

_apply_join(data, join_data, op) ==
    IF join_data = <<>> THEN Ok(data)             \* if not self.join_data
    ELSE IF op.join_type \in {"INNER", "LEFT"}
         THEN Ok(JoinLeftRows(data, join_data, op, 1))
    ELSE IF op.join_type = "RIGHT"
         THEN Ok(JoinRightRows(data, join_data, op, 1))
    ELSE Ok(<<>>)

\* The comparison of _apply_filter on the coerced operands.
Coerce(val) == IF CanFloat(val) THEN PyFloat(val) ELSE val
Ordering == {">", "<", ">=", "<="}
PyCompare(operator, a, b) ==
    CASE operator = ">"  -> PyLess(b, a)
      [] operator = "<"  -> PyLess(a, b)
      [] operator = ">=" -> ~PyLess(a, b)
      [] operator = "<=" -> ~PyLess(b, a)
      [] operator = "==" -> a = b
      [] operator = "!=" -> a # b
      [] OTHER -> FALSE

\* The comparison raises TypeError: an ordering operator on operands of
\* different types, or on None.
FilterRaises(row, op) ==
    /\ op.operator \in Ordering
    /\ ~Comparable(Coerce(Get(row, op.column)), Coerce(op.value))

FilterMatch(row, op) ==
    PyCompare(op.operator, Coerce(Get(row, op.column)), Coerce(op.value))

RECURSIVE FilterLoop(_, _, _, _)
FilterLoop(data, op, i, filtered) ==
    IF i > Len(data) THEN Ok(filtered)
    ELSE IF FilterRaises(data[i], op) THEN Raise("TypeError")
    ELSE FilterLoop(data, op, i + 1,
                    IF FilterMatch(data[i], op) THEN Append(filtered, data[i])
                                                ELSE filtered)

_apply_filter(data, op) == FilterLoop(data, op, 1, <<>>)

\* _apply_orderby
_apply_orderby(data, op) ==
    IF MixedKeys(data, op.column) THEN Raise("TypeError")
    ELSE Ok(PySorted(data, op.column, op.direction = "DESC"))

\* _apply_groupby.  groups is a dict keyed by str(row.get(column)); its keys
\* are listed in insertion (first-encounter) order.
RECURSIVE GroupKeys(_, _, _)
GroupKeys(data, column, i) ==
    IF i > Len(data) THEN <<>>
    ELSE LET key == PyStr(Get(data[i], column))
             seen == \E j \in 1..(i-1) : PyStr(Get(data[j], column)) = key
         IN  (IF seen THEN <<>> ELSE <<key>>) \o GroupKeys(data, column, i + 1)

GroupRows(data, column, key) ==
    SelectSeq(data, LAMBDA r : PyStr(Get(r, column)) = key)

\* values: float(row.get(agg_column, 0)) of the rows where it does not raise.
AggValues(rows, agg_column) ==
    LET V(r) == IF agg_column \in DOMAIN r THEN r[agg_column] ELSE Num(0)
        usable == SelectSeq(rows, LAMBDA r : CanFloat(V(r)))
    IN  [i \in 1..Len(usable) |-> PyFloat(V(usable[i])).n]

RECURSIVE SeqSum(_)
SeqSum(values) ==
    IF values = <<>> THEN 0 ELSE values[1] + SeqSum(Tail(values))

SeqRange(values) == {values[i] : i \in 1..Len(values)}

\* One result row of the aggregating branch.
AggRow(column, key, rows, op) ==
    LET values == AggValues(rows, op.agg_column)
        With(fld, v) == [c \in {column, fld} |-> IF c = fld THEN v ELSE key]
    IN  IF op.agg_func = "COUNT" THEN With("count", Num(Len(rows)))
        ELSE IF op.agg_func \in {"SUM", "AVG", "MIN", "MAX"} /\ values # <<>>
        THEN CASE op.agg_func = "SUM" -> With("sum", Num(SeqSum(values)))
               [] op.agg_func = "AVG" ->
                    With("avg", [t |-> "frac", n |-> SeqSum(values), d |-> Len(values)])
               [] op.agg_func = "MIN" ->
                    With("min", Num(CHOOSE m \in SeqRange(values) :
                                        \A v \in SeqRange(values) : m <= v))
               [] op.agg_func = "MAX" ->
                    With("max", Num(CHOOSE m \in SeqRange(values) :
                                        \A v \in SeqRange(values) : m >= v))
        ELSE [c \in {column} |-> key]

_apply_groupby(data, op) ==
    LET keys == GroupKeys(data, op.column, 1)
    IN  IF op.agg_func # ""
        THEN Ok([g \in 1..Len(keys) |->
                    AggRow(op.column, keys[g], GroupRows(data, op.column, keys[g]), op)])
        ELSE Ok([g \in 1..Len(keys) |->
                    [group |-> keys[g],
                     count |-> Num(Len(GroupRows(data, op.column, keys[g])))]])

\* _apply_having: the aggregate of a group row under the key of the function
\* (None for another function or a row without the key), compared as a float
\* with the coerced value.  A comparison that raises skips the row, and "!="
\* is not among the operators.
HavingKey(function) ==
    CASE function = "COUNT" -> "count"
      [] function = "SUM" -> "sum"
      [] function = "AVG" -> "avg"
      [] function = "MIN" -> "min"
      [] function = "MAX" -> "max"
      [] OTHER -> ""
HavingMatch(row, op) ==
    LET agg_val == Get(row, HavingKey(op.function))
        value == Coerce(op.value)
    IN  /\ agg_val # None
        /\ value.t = "num"
        /\ IF agg_val.t = "frac"
           THEN PyCompare(op.operator, Num(agg_val.n), Num(value.n * agg_val.d))
           ELSE PyCompare(op.operator, agg_val, value)
        /\ op.operator \in {">", "<", ">=", "<=", "=="}
_apply_having(data, op) ==
    IF data = <<>> THEN Ok(data)
    ELSE Ok(SelectSeq(data, LAMBDA row : HavingMatch(row, op)))

\* One operator of _execute_normal's loop.
ApplyOp(result, join_data, op) ==
    CASE op.type = "select"  -> _apply_select(result, op)
      [] op.type = "join"    -> _apply_join(result, join_data, op)
      [] op.type = "filter"  -> _apply_filter(result, op)
      [] op.type = "groupby" -> _apply_groupby(result, op)
      [] op.type = "having"  -> _apply_having(result, op)
      [] op.type = "orderby" -> _apply_orderby(result, op)
      [] op.type = "limit"   -> Ok(PySlice(result, op.value))
      [] OTHER -> Ok(result)

RECURSIVE _execute_normal(_, _, _)
_execute_normal(data, join_data, ops) ==
    IF ops = <<>> THEN Ok(data)
    ELSE LET r == ApplyOp(data, join_data, ops[1])
         IN  IF r.err # "" THEN r ELSE _execute_normal(r.rows, join_data, Tail(ops))

-----------------------------------------------------------------------------
(* Streaming order-by: QueryExecutor.execute/_execute_chunked and           *)
(* merge_sort._execute_chunked_external_orderby.                            *)

\* The attributes class QueryExecutor defines (query_executor.py).  The
\* function imported from merge_sort on line 2 is a module global of
\* query_executor, not an attribute of the class.
QueryExecutorAttrs ==
    {"execute", "_execute_normal", "_execute_chunked", "_execute_chunked_simple",
     "_apply_select", "_apply_join", "_apply_filter", "_apply_groupby",
     "_apply_orderby", "_apply_having", "_process_simple_ops_on_chunk",
     "data", "headers", "file_path", "chunked", "chunk_size", "join_data",
     "join_headers"}

HasType(ops, types) == \E i \in 1..Len(ops) : ops[i].type \in types

\* Index of the first order-by descriptor.
OrderIdx(ops) ==
    CHOOSE i \in 1..Len(ops) :
        ops[i].type = "orderby" /\ \A j \in 1..(i-1) : ops[j].type # "orderby"

\* simple_ops: the filter/select descriptors declared before the order-by.
SimpleOps(ops) ==
    SelectSeq(SubSeq(ops, 1, OrderIdx(ops) - 1),
              LAMBDA op : op.type \in {"filter", "select"})

\* post_limit: the value of the first limit declared after the order-by
\* (-1 stands for None).
PostLimit(ops) ==
    LET after == SelectSeq(SubSeq(ops, OrderIdx(ops) + 1, Len(ops)),
                           LAMBDA op : op.type = "limit")
    IN  IF after = <<>> THEN -1 ELSE after[1].value

\* _process_simple_ops_on_chunk
_process_simple_ops_on_chunk(chunk, simple_ops) ==
    _execute_normal(chunk, <<>>, simple_ops)

\* json.dumps(row) and json.loads(line) of a row of strings and nulls.
JsonDumps(row) ==
    [c \in DOMAIN row |->
        IF row[c].t = "null" THEN [j |-> "null"]
        ELSE IF row[c].t = "str" THEN [j |-> "string", s |-> row[c].s]
        ELSE [j |-> "number", n |-> row[c].n]]
JsonLoads(line) ==
    [c \in DOMAIN line |->
        IF line[c].j = "null" THEN None
        ELSE IF line[c].j = "string" THEN Str(line[c].s)
        ELSE Num(line[c].n)]

\* heapq on (sort_key, idx, row) tuples.  Comparing two tuples compares the
\* keys first, which raises TypeError for keys of different types.
HeapEntry(row, idx, column) == [key |-> sort_key(row, column), idx |-> idx, row |-> row]
PushRaises(h, e) == \E o \in h : o.key.t # e.key.t
EntryLess(a, b) ==
    \/ PyLess(a.key, b.key)
    \/ (a.key = b.key /\ a.idx < b.idx)
HeapMin(h) == CHOOSE e \in h : \A o \in h \ {e} : EntryLess(e, o)

\* QueryExecutor.execute on a streaming source whose pipeline has an order-by
\* and neither join nor group-by/having: _execute_chunked resolves
\* self._execute_chunked_external_orderby.
Execute ==
    /\ UNCHANGED <<pipeVars, listVars, textVars, streamVars, loadVars, parseVars>>
    /\ pc = "call" /\ entry = "execute"
    /\ ~HasType(operations, {"join"})
    /\ HasType(operations, {"orderby"})
    /\ ~HasType(operations, {"groupby", "having"})
    /\ IF "_execute_chunked_external_orderby" \in QueryExecutorAttrs
       THEN pc' = "enter" /\ outcome' = outcome
       ELSE pc' = "raised" /\ outcome' = "AttributeError"
    /\ UNCHANGED <<file, chunk_size, operations, entry, consumed, temp_files,
                   disk, heap, results>>

\* Lines 12-47 of the function: a descending order-by materializes the source
\* and runs _execute_normal; an ascending one goes on to phase 1.
EnterSort ==
    /\ UNCHANGED <<pipeVars, listVars, textVars, streamVars, loadVars, parseVars>>
    /\ \/ pc = "call" /\ entry = "direct"
       \/ pc = "enter"
    /\ IF operations[OrderIdx(operations)].direction = "DESC"
       THEN LET r == _execute_normal(file, <<>>, operations)
            IN  /\ results' = r.rows
                /\ outcome' = IF r.err = "" THEN "result" ELSE r.err
                /\ pc' = IF r.err = "" THEN "done" ELSE "raised"
                /\ consumed' = Len(file)
       ELSE pc' = "phase1" /\ UNCHANGED <<results, outcome, consumed>>
    /\ UNCHANGED <<file, chunk_size, operations, entry, temp_files, disk, heap>>

\* Phase 1, one chunk (lines 52-64): filter/select, skip an empty batch, sort,
\* then create the temp file and write the sorted batch to it.
SpillChunk ==
    /\ UNCHANGED <<pipeVars, listVars, textVars, streamVars, loadVars, parseVars>>
    /\ pc = "phase1" /\ consumed < Len(file)
    /\ LET chunk == SubSeq(file, consumed + 1, Min(consumed + chunk_size, Len(file)))
           r == _process_simple_ops_on_chunk(chunk, SimpleOps(operations))
           column == operations[OrderIdx(operations)].column
       IN  /\ consumed' = consumed + Len(chunk)
           /\ IF r.err # "" \/ MixedKeys(r.rows, column)
              THEN /\ pc' = "raised" /\ outcome' = "TypeError"
                   /\ UNCHANGED <<temp_files, disk>>
              ELSE IF r.rows = <<>>
              THEN UNCHANGED <<pc, outcome, temp_files, disk>>
              ELSE LET sorted == PySorted(r.rows, column, FALSE)
                       lines == [i \in 1..Len(sorted) |-> JsonDumps(sorted[i])]
                   IN  /\ temp_files' = Append(temp_files, [lines |-> lines, rd |-> 0])
                       /\ disk' = disk \cup {Len(temp_files) + 1}
                       /\ UNCHANGED <<pc, outcome>>
    /\ UNCHANGED <<file, chunk_size, operations, entry, heap, results>>

\* Lines 66-70: the generator is exhausted.
EndPhase1 ==
    /\ UNCHANGED <<pipeVars, listVars, textVars, streamVars, loadVars, parseVars>>
    /\ pc = "phase1" /\ consumed = Len(file)
    /\ IF temp_files = <<>>
       THEN pc' = "done" /\ outcome' = "result" /\ results' = <<>>
       ELSE pc' = "heapinit" /\ UNCHANGED <<outcome, results>>
    /\ UNCHANGED <<file, chunk_size, operations, entry, consumed, temp_files,
                   disk, heap>>

\* Lines 71-75, one temp file: read its first line and push it.
HeapInit ==
    /\ UNCHANGED <<pipeVars, listVars, textVars, streamVars, loadVars, parseVars>>
    /\ pc = "heapinit"
    /\ LET idx == CHOOSE i \in 1..Len(temp_files) :
                      temp_files[i].rd = 0 /\ \A j \in 1..(i-1) : temp_files[j].rd > 0
           column == operations[OrderIdx(operations)].column
           e == HeapEntry(JsonLoads(temp_files[idx].lines[1]), idx, column)
       IN  /\ temp_files' = [temp_files EXCEPT ![idx].rd = 1]
           /\ IF PushRaises(heap, e)
              THEN pc' = "raised" /\ outcome' = "TypeError" /\ heap' = heap
              ELSE /\ heap' = heap \cup {e}
                   /\ pc' = IF idx = Len(temp_files) THEN "merge" ELSE "heapinit"
                   /\ outcome' = outcome
    /\ UNCHANGED <<file, chunk_size, operations, entry, consumed, disk, results>>

\* Lines 79-90, one iteration of the merge loop.
MergeStep ==
    /\ UNCHANGED <<pipeVars, listVars, textVars, streamVars, loadVars, parseVars>>
    /\ pc = "merge" /\ heap # {}
    /\ LET top == HeapMin(heap)
           rest == heap \ {top}
           post_limit == PostLimit(operations)
           tmp == temp_files[top.idx]
           column == operations[OrderIdx(operations)].column
       IN  /\ results' = Append(results, top.row)
           /\ IF post_limit # -1 /\ Len(results) + 1 >= post_limit
              THEN pc' = "cleanup" /\ heap' = rest /\ UNCHANGED <<temp_files, outcome>>
              ELSE IF tmp.rd < Len(tmp.lines)
              THEN LET e == HeapEntry(JsonLoads(tmp.lines[tmp.rd + 1]), top.idx, column)
                   IN  /\ temp_files' = [temp_files EXCEPT ![top.idx].rd = tmp.rd + 1]
                       /\ IF PushRaises(rest, e)
                          THEN pc' = "raised" /\ outcome' = "TypeError" /\ heap' = rest
                          ELSE heap' = rest \cup {e} /\ UNCHANGED <<pc, outcome>>
              ELSE /\ heap' = rest
                   /\ pc' = IF rest = {} THEN "cleanup" ELSE "merge"
                   /\ UNCHANGED <<temp_files, outcome>>
    /\ UNCHANGED <<file, chunk_size, operations, entry, consumed, disk>>

\* A cleanup that forgets the last temp file.
UnlinkAllButLast(d, files) == d \ (1..(Len(files) - 1))

\* for temp_file in temp_files: os.unlink(temp_file.name)
Unlink(d, files) == d \ (1..Len(files))

\* Lines 92-97: unlink every temp file and return the results.
Cleanup ==
    /\ UNCHANGED <<pipeVars, listVars, textVars, streamVars, loadVars, parseVars>>
    /\ pc = "cleanup"
    /\ disk' = Unlink(disk, temp_files)
    /\ pc' = "done" /\ outcome' = "result"
    /\ UNCHANGED <<file, chunk_size, operations, entry, consumed, temp_files,
                   heap, results>>

\* The inputs: a source file of up to MaxRows rows whose sort column holds
\* numeric text, other text or nothing; a batch size; a pipeline with one
\* order-by, optionally behind a filter and in front of a limit.
RowNames == <<"r1", "r2", "r3", "r4", "r5", "r6">>
SortVals == {Str("2"), Str("10"), Str("x"), None}
SourceFiles ==
    {[i \in 1..Len(vals) |-> [k |-> Str(RowNames[i]), v |-> vals[i]]] :
        vals \in UNION {[1..n -> SortVals] : n \in 0..MaxRows}}
OrderBy(dir) == [type |-> "orderby", column |-> "v", direction |-> dir]
Limit(n) == [type |-> "limit", value |-> n]
Filter(column, operator, value) ==
    [type |-> "filter", column |-> column, operator |-> operator, value |-> value]
SortPipelines ==
    {pre \o <<OrderBy(dir)>> \o post :
        pre \in {<<>>, <<Filter("v", "!=", Str("x"))>>},
        dir \in {"ASC", "DESC"},
        post \in {<<>>} \cup {<<Limit(n)>> : n \in 0..MaxLimit}}

\* No executor is loaded.
NoPipe ==
    /\ engine = "none" /\ source = <<>> /\ joined = <<>> /\ objects = <<>>
    /\ last_op = [type |-> "none"] /\ prev = <<>> /\ current = <<>>
    /\ raised = "" /\ nops = 0

\* No engine object and no parser call.
NoList == api = "none" /\ oplist = <<>> /\ oplist_prev = <<>> /\ call = [name |-> "none"]
NoText == text = <<>> /\ parsed = [t |-> "idle"]
\* No batch generator has been created.
NoStream == file_lines = <<>> /\ gen = [reader |-> "none"] /\ batches = <<>>
\* No parser call is in progress.
NoParse == cursor = 0 /\ stack = <<>> /\ ret = [has |-> FALSE]
\* No engine object is loading.
NoLoad ==
    /\ self = [class |-> "none"] /\ self_before = [class |-> "none"]
    /\ load = [n |-> 0, ok |-> TRUE, err |-> ""] /\ temp_store = <<>>
    /\ executor = [built |-> FALSE]

\* No streaming call is in progress.
NoSort ==
    /\ file = <<>> /\ chunk_size = 1 /\ operations = <<>> /\ entry = "none"
    /\ pc = "idle" /\ consumed = 0 /\ temp_files = <<>> /\ disk = {}
    /\ heap = {} /\ results = <<>> /\ outcome = "idle"

InitSort ==
    /\ NoPipe /\ NoList /\ NoText /\ NoStream /\ NoLoad /\ NoParse
    /\ file \in SourceFiles
    /\ chunk_size \in 1..MaxChunk
    /\ operations \in SortPipelines
    /\ entry \in {"execute", "direct"}
    /\ pc = "call" /\ consumed = 0 /\ temp_files = <<>> /\ disk = {}
    /\ heap = {} /\ results = <<>> /\ outcome = "running"

NextSort ==
    \/ Execute
    \/ EnterSort
    \/ SpillChunk
    \/ EndPhase1
    \/ HeapInit
    \/ MergeStep
    \/ Cleanup

SpecSort == InitSort /\ [][NextSort]_vars

-----------------------------------------------------------------------------
(* Streaming without order-by: QueryExecutor.execute, _execute_chunked and  *)
(* _execute_chunked_simple.  The call reads the file in batches of          *)
(* chunk_size rows; consumed counts the rows read so far.                   *)

\* limit_val: the value of the first limit of the pipeline (-1 stands for None).
LimitVal(ops) ==
    LET limits == SelectSeq(ops, LAMBDA op : op.type = "limit")
    IN  IF limits = <<>> THEN -1 ELSE limits[1].value
\* groupby_ops and simple_ops, each in declared order.
GroupbyOps(ops) == SelectSeq(ops, LAMBDA op : op.type = "groupby")
AllSimpleOps(ops) == SelectSeq(ops, LAMBDA op : op.type \in {"filter", "select"})

\* execute and _execute_chunked: a pipeline without join, and without an
\* order-by that has no group operator beside it, goes to
\* _execute_chunked_simple.
ExecuteChunked ==
    /\ UNCHANGED <<pipeVars, listVars, textVars, streamVars, loadVars, parseVars>>
    /\ pc = "call" /\ entry = "execute"
    /\ ~HasType(operations, {"join"})
    /\ ~(HasType(operations, {"orderby"}) /\ ~HasType(operations, {"groupby", "having"}))
    /\ pc' = "stream"
    /\ UNCHANGED <<file, chunk_size, operations, entry, consumed, temp_files,
                   disk, heap, results, outcome>>

\* One batch of the loop (lines 86-105): filter/select the batch, skip an
\* empty result, extend the results up to the limit and stop at the limit.
StreamChunk ==
    /\ UNCHANGED <<pipeVars, listVars, textVars, streamVars, loadVars, parseVars>>
    /\ pc = "stream" /\ consumed < Len(file)
    /\ LET chunk == SubSeq(file, consumed + 1, Min(consumed + chunk_size, Len(file)))
           r == _process_simple_ops_on_chunk(chunk, AllSimpleOps(operations))
           limit_val == LimitVal(operations)
           remaining == Max(0, limit_val - Len(results))
       IN  /\ consumed' = consumed + Len(chunk)
           /\ IF r.err # ""
              THEN pc' = "raised" /\ outcome' = r.err /\ results' = results
              ELSE IF r.rows = <<>>
              THEN UNCHANGED <<pc, outcome, results>>
              ELSE IF limit_val # -1
              THEN IF remaining <= 0
                   THEN pc' = "groupby" /\ UNCHANGED <<outcome, results>>
                   ELSE /\ results' = results \o PySlice(r.rows, remaining)
                        /\ pc' = IF Len(results') >= limit_val THEN "groupby" ELSE pc
                        /\ outcome' = outcome
              ELSE results' = results \o r.rows /\ UNCHANGED <<pc, outcome>>
    /\ UNCHANGED <<file, chunk_size, operations, entry, temp_files, disk, heap>>

\* After the loop (lines 107-112): the group-bys over the accumulated rows,
\* then the return.
ApplyGroupbys ==
    /\ UNCHANGED <<pipeVars, listVars, textVars, streamVars, loadVars, parseVars>>
    /\ \/ pc = "groupby"
       \/ pc = "stream" /\ consumed = Len(file)
    /\ LET r == _execute_normal(results, <<>>, GroupbyOps(operations))
       IN  /\ results' = r.rows
           /\ outcome' = IF r.err = "" THEN "result" ELSE r.err
           /\ pc' = IF r.err = "" THEN "done" ELSE "raised"
    /\ UNCHANGED <<file, chunk_size, operations, entry, consumed, temp_files,
                   disk, heap>>

\* Pipelines of filter, select, limit, group-by, having and order-by
\* descriptors over the rows {k, v}.
GroupBy(agg_func) ==
    [type |-> "groupby", column |-> "v", agg_func |-> agg_func, agg_column |-> "v"]
Having(function, operator, value) ==
    [type |-> "having", function |-> function, operator |-> operator, value |-> value]
ChunkFilters == {Filter("v", "!=", Str("x")), Filter("v", "==", Str("2"))}
ChunkGroupbys == {GroupBy("COUNT"), GroupBy("SUM"), GroupBy("")}
ChunkAfterGroup ==
    {Having("COUNT", ">=", Str("2")), Having("SUM", "<=", Str("2")),
     [type |-> "orderby", column |-> "count", direction |-> "DESC"]}
ChunkLimits == {Limit(n) : n \in 0..MaxLimit}
ChunkPipelines ==
    {<<f>> : f \in ChunkFilters}
    \cup {<<[type |-> "select", columns |-> <<"v">>]>>}
    \cup {<<l, f>> : l \in ChunkLimits, f \in ChunkFilters}
    \cup {<<f, l>> : l \in ChunkLimits, f \in ChunkFilters}
    \cup {<<l, g>> : l \in ChunkLimits, g \in ChunkGroupbys}
    \cup {<<f, l, g>> : f \in ChunkFilters, l \in ChunkLimits, g \in ChunkGroupbys}
    \cup {<<g>> : g \in ChunkGroupbys}
    \cup {<<g, a>> : g \in ChunkGroupbys, a \in ChunkAfterGroup}
    \cup {<<f, g, a>> : f \in ChunkFilters, g \in ChunkGroupbys, a \in ChunkAfterGroup}

InitChunk ==
    /\ NoPipe /\ NoList /\ NoText /\ NoStream /\ NoLoad /\ NoParse
    /\ file \in SourceFiles
    /\ chunk_size \in 1..MaxChunk
    /\ operations \in ChunkPipelines
    /\ entry = "execute"
    /\ pc = "call" /\ consumed = 0 /\ temp_files = <<>> /\ disk = {}
    /\ heap = {} /\ results = <<>> /\ outcome = "running"

NextChunk ==
    \/ ExecuteChunked
    \/ StreamChunk
    \/ ApplyGroupbys

SpecChunk == InitChunk /\ [][NextChunk]_vars

-----------------------------------------------------------------------------
(* The chained operators of sql_component over a Table: headers (a list of  *)
(* column names) and data (a list of rows, each a list of values that may   *)
(* be shorter than the header list).                                        *)
TblOk(headers, data) == [err |-> "", headers |-> headers, data |-> data]
TblRaise(e) == [err |-> e, headers |-> <<>>, data |-> <<>>]

InList(x, list) == \E i \in 1..Len(list) : list[i] = x
\* list.index(x): the first position of x.
IndexOf(list, x) ==
    CHOOSE i \in 1..Len(list) : list[i] = x /\ \A j \in 1..(i-1) : list[j] # x
\* row[i] if i < len(row) else None
Cell(row, i) == IF i <= Len(row) THEN row[i] ELSE None

\* Filter.apply with the condition  lambda row: row[column] <operator> value.
\* The condition raises KeyError for an unknown column and TypeError for an
\* ordering comparison of values of different types; the loop skips the row.
CondRaises(headers, row, cond) ==
    \/ ~InList(cond.column, headers)
    \/ /\ cond.operator \in Ordering
       /\ ~Comparable(Cell(row, IndexOf(headers, cond.column)), cond.value)

CondHolds(headers, row, cond) ==
    PyCompare(cond.operator, Cell(row, IndexOf(headers, cond.column)), cond.value)

RECURSIVE FilterApplyLoop(_, _, _, _)
FilterApplyLoop(table, cond, i, filtered_rows) ==
    IF i > Len(table.data) THEN filtered_rows
    ELSE FilterApplyLoop(table, cond, i + 1,
            IF ~CondRaises(table.headers, table.data[i], cond)
               /\ CondHolds(table.headers, table.data[i], cond)
            THEN Append(filtered_rows, table.data[i])
            ELSE filtered_rows)

\* A filter that also loses the first row it kept.
FilterApplyRest(table, cond) ==
    LET kept == FilterApplyLoop(table, cond, 1, <<>>)
    IN  TblOk(table.headers, IF kept = <<>> THEN kept ELSE Tail(kept))

FilterApply(table, cond) ==
    TblOk(table.headers, FilterApplyLoop(table, cond, 1, <<>>))

\* A projection that takes the cells by their position in the request.
ProjectionByPosition(table, columns) ==
    IF \E c \in 1..Len(columns) : ~InList(columns[c], table.headers)
    THEN TblRaise("ValueError")
    ELSE TblOk(columns,
               [r \in 1..Len(table.data) |->
                   [c \in 1..Len(columns) |-> Cell(table.data[r], c)]])

\* Projection.apply
ProjectionApply(table, columns) ==
    IF \E c \in 1..Len(columns) : ~InList(columns[c], table.headers)
    THEN TblRaise("ValueError")
    ELSE TblOk(columns,
               [r \in 1..Len(table.data) |->
                   [c \in 1..Len(columns) |->
                       Cell(table.data[r], IndexOf(table.headers, columns[c]))]])

\* right_index[key_val]: the right rows under that key, in table order.
RightBucket(right_table, right_key, key_val) ==
    SelectSeq(right_table.data,
              LAMBDA row : Cell(row, IndexOf(right_table.headers, right_key)) = key_val)

\* The result headers of both joins: the left headers, then the right
\* headers without the right key.
JoinHeaders(left_table, right_table, right_key) ==
    left_table.headers \o SelectSeq(right_table.headers, LAMBDA h : h # right_key)

\* filtered_right: the right row without the join key column.
FilteredRight(right_table, right_key, right_row) ==
    LET keep == SelectSeq([i \in 1..Len(right_table.headers) |-> i],
                          LAMBDA i : right_table.headers[i] # right_key
                                     /\ i <= Len(right_row))
    IN  [i \in 1..Len(keep) |-> right_row[keep[i]]]

RECURSIVE JoinRows(_, _, _, _, _, _)
JoinRows(left_table, right_table, left_key, right_key, kind, i) ==
    IF i > Len(left_table.data) THEN <<>>
    ELSE LET left_row == left_table.data[i]
             key_val == Cell(left_row, IndexOf(left_table.headers, left_key))
             bucket == RightBucket(right_table, right_key, key_val)
             null_right_row == [c \in 1..(Len(right_table.headers) - 1) |-> None]
             out == IF bucket # <<>>
                    THEN [j \in 1..Len(bucket) |->
                            IF kind = "inner"
                            THEN left_row \o bucket[j]
                            ELSE left_row \o FilteredRight(right_table, right_key, bucket[j])]
                    ELSE IF kind = "left" THEN <<left_row \o null_right_row>>
                    ELSE <<>>
         IN  out \o JoinRows(left_table, right_table, left_key, right_key, kind, i + 1)

\* Join.inner_join (kind = "inner") and Join.left_join (kind = "left").
JoinTables(left_table, right_table, left_key, right_key, kind) ==
    IF ~InList(left_key, left_table.headers) \/ ~InList(right_key, right_table.headers)
    THEN TblRaise("ValueError")
    ELSE TblOk(JoinHeaders(left_table, right_table, right_key),
               JoinRows(left_table, right_table, left_key, right_key, kind, 1))

\* GroupBy.apply on one grouping column: the keys of the groups dict in
\* insertion order, and the rows of a group.
RECURSIVE GroupByKeys(_, _, _)
GroupByKeys(table, col, i) ==
    IF i > Len(table.data) THEN <<>>
    ELSE LET gi == IndexOf(table.headers, col)
             key == Cell(table.data[i], gi)
             seen == \E j \in 1..(i-1) : Cell(table.data[j], gi) = key
         IN  (IF seen THEN <<>> ELSE <<key>>) \o GroupByKeys(table, col, i + 1)

GroupByRows(table, col, key) ==
    SelectSeq(table.data, LAMBDA row : Cell(row, IndexOf(table.headers, col)) = key)

\* Aggregation.sum: the total of the values float() accepts, None without any.
AggregationSum(values) ==
    LET usable == SelectSeq(values, LAMBDA v : CanFloat(v))
    IN  IF usable = <<>> THEN None
        ELSE Num(SeqSum([i \in 1..Len(usable) |-> PyFloat(usable[i]).n]))

\* Aggregation.count
AggregationCount(values) == Num(Len(SelectSeq(values, LAMBDA v : v # None)))

\* GroupBy.apply followed by Aggregation.apply_to_groups with the spec
\* {agg_col: [func_name]}.
GroupAggregate(table, col, agg_col, func_name) ==
    IF ~InList(col, table.headers) THEN Raise("ValueError")
    ELSE LET keys == GroupByKeys(table, col, 1)
             Values(key) ==
                 LET rows == GroupByRows(table, col, key)
                 IN  [r \in 1..Len(rows) |->
                         Cell(rows[r], IndexOf(table.headers, agg_col))]
             Row(key) ==
                 IF ~InList(agg_col, table.headers) \/ func_name \notin {"sum", "count"}
                 THEN [group_key |-> <<key>>]
                 ELSE [group_key |-> <<key>>,
                       agg |-> IF func_name = "sum" THEN AggregationSum(Values(key))
                               ELSE AggregationCount(Values(key))]
         IN  Ok([g \in 1..Len(keys) |-> Row(keys[g])])

-----------------------------------------------------------------------------
(* The document pipeline of nosql_executor.py.  Documents are Python        *)
(* objects: objs is the heap, a list of dicts ([kind |-> "dict", f]) and    *)
(* lists ([kind |-> "list", items]); a value is None, a number, a string    *)
(* or a reference Ref(id) to objs[id].  Two references to the same id are   *)
(* the same object.                                                         *)
Ref(id) == [t |-> "ref", id |-> id]
Dict(f) == [kind |-> "dict", f |-> f]
List(items) == [kind |-> "list", items |-> items]
EmptyDict == Dict([k \in {} |-> None])

IsDict(objs, val) == val.t = "ref" /\ objs[val.id].kind = "dict"

\* path.split('.') for the paths of the model.
Split(path) ==
    CASE path = "a.b"   -> <<"a", "b">>
      [] path = "a.b.c" -> <<"a", "b", "c">>
      [] OTHER          -> <<path>>

\* _get_nested_value, on the keys of the path.
RECURSIVE GetNested(_, _, _)
GetNested(objs, value, keys) ==
    IF keys = <<>> THEN value
    ELSE IF IsDict(objs, value)
         THEN GetNested(objs, Get(objs[value.id].f, keys[1]), Tail(keys))
         ELSE None

_get_nested_value(objs, obj, path) == GetNested(objs, obj, Split(path))

\* obj[key] = value on the dict objs[id].
SetItem(objs, id, key, value) ==
    [objs EXCEPT ![id] =
        Dict([k \in DOMAIN objs[id].f \cup {key} |->
                 IF k = key THEN value ELSE objs[id].f[k]])]

\* _set_nested_value, on the keys of the path.  `key not in obj`, obj[key]
\* and obj[key] = ... raise TypeError when obj is no dict; what was written
\* before stays written.
RECURSIVE SetNested(_, _, _, _)
SetNested(objs, obj, keys, value) ==
    IF ~IsDict(objs, obj) THEN [objs |-> objs, err |-> "TypeError"]
    ELSE IF Len(keys) = 1
    THEN [objs |-> SetItem(objs, obj.id, keys[1], value), err |-> ""]
    ELSE IF keys[1] \notin DOMAIN objs[obj.id].f
    THEN LET new == Len(objs) + 1
         IN  SetNested(SetItem(Append(objs, EmptyDict), obj.id, keys[1], Ref(new)),
                       Ref(new), Tail(keys), value)
    ELSE SetNested(objs, objs[obj.id].f[keys[1]], Tail(keys), value)

_set_nested_value(objs, obj, path, value) == SetNested(objs, obj, Split(path), value)

\* str(value).  Equal texts are equal model values: str(None) is the text
\* "None", str of a number its decimal text, str of a dict or list its repr,
\* which is decided by its contents.
RECURSIVE DocStr(_, _)
DocStr(objs, val) ==
    CASE val.t = "null" -> Str("None")
      [] val.t = "str"  -> val
      [] val.t = "num"  -> Str(IF val.n = 1 THEN "1" ELSE IF val.n = 2 THEN "2"
                               ELSE IF val.n = 10 THEN "10" ELSE "0")
      [] val.t = "ref"  ->
            IF objs[val.id].kind = "dict"
            THEN [t |-> "repr",
                  v |-> [k \in DOMAIN objs[val.id].f |-> DocStr(objs, objs[val.id].f[k])]]
            ELSE [t |-> "repr",
                  v |-> [i \in 1..Len(objs[val.id].items) |->
                            DocStr(objs, objs[val.id].items[i])]]

\* float(value) succeeds on numbers and on numeric text.
DocMatch(objs, doc, op) ==
    LET doc_val == _get_nested_value(objs, doc, op.field)
    IN  CASE op.operator = "==" -> DocStr(objs, doc_val) = DocStr(objs, op.value)
          [] op.operator = "!=" -> DocStr(objs, doc_val) # DocStr(objs, op.value)
          [] op.operator = ">"  -> /\ CanFloat(doc_val) /\ CanFloat(op.value)
                                   /\ PyFloat(doc_val).n > PyFloat(op.value).n
          [] op.operator = "<"  -> /\ CanFloat(doc_val) /\ CanFloat(op.value)
                                   /\ PyFloat(doc_val).n < PyFloat(op.value).n
          [] OTHER -> FALSE

\* An operator of the document pipeline returns the heap, its result list and
\* the error it raised ("" for none).
DocOk(objs, docs) == [objs |-> objs, docs |-> docs, err |-> ""]

NoSQL_apply_filter(objs, data, op) ==
    DocOk(objs, SelectSeq(data, LAMBDA doc : DocMatch(objs, doc, op)))

\* The keys of join_index in insertion order, and the docs under a key.
RECURSIVE IndexKeys(_, _, _, _)
IndexKeys(objs, coll, join_field, i) ==
    IF i > Len(coll) THEN <<>>
    ELSE LET key == DocStr(objs, _get_nested_value(objs, coll[i], join_field))
             seen == \E j \in 1..(i-1) :
                        DocStr(objs, _get_nested_value(objs, coll[j], join_field)) = key
         IN  (IF seen THEN <<>> ELSE <<key>>) \o IndexKeys(objs, coll, join_field, i + 1)

\* The lookup loop: new_doc = doc.copy(); new_doc['joined_data'] is the
\* bucket list of the index, or a new empty list.
RECURSIVE LookupLoop(_, _, _, _, _, _, _)
LookupLoop(objs, data, op, keys, base, i, result) ==
    IF i > Len(data) THEN DocOk(objs, result)
    ELSE LET key == DocStr(objs, _get_nested_value(objs, data[i], op.main_field))
             new_doc == Len(objs) + 1
             copied == Append(objs, objs[data[i].id])
         IN  IF InList(key, keys)
             THEN LookupLoop(
                    SetItem(copied, new_doc, "joined_data", Ref(base + IndexOf(keys, key))),
                    data, op, keys, base, i + 1, Append(result, Ref(new_doc)))
             ELSE LookupLoop(
                    SetItem(Append(copied, List(<<>>)), new_doc, "joined_data",
                            Ref(new_doc + 1)),
                    data, op, keys, base, i + 1, Append(result, Ref(new_doc)))

NoSQL_apply_join(objs, data, join_data, op) ==
    IF join_data = <<>> THEN DocOk(objs, data)       \* if not self.join_data
    ELSE LET keys == IndexKeys(objs, join_data, op.join_field, 1)
             Bucket(key) ==
                 SelectSeq(join_data, LAMBDA doc :
                     DocStr(objs, _get_nested_value(objs, doc, op.join_field)) = key)
             indexed == objs \o [g \in 1..Len(keys) |-> List(Bucket(keys[g]))]
         IN  LookupLoop(indexed, data, op, keys, Len(objs), 1, <<>>)

\* _apply_projection: the inner loop over the fields of one document, and
\* the loop over the documents.
RECURSIVE ProjectFields(_, _, _, _, _)
ProjectFields(objs, doc, new_doc, fields, i) ==
    IF i > Len(fields) THEN [objs |-> objs, err |-> ""]
    ELSE LET value == _get_nested_value(objs, doc, fields[i])
             r == _set_nested_value(objs, new_doc, fields[i], value)
         IN  IF r.err # "" THEN r
             ELSE ProjectFields(r.objs, doc, new_doc, fields, i + 1)

RECURSIVE ProjectLoop(_, _, _, _, _)
ProjectLoop(objs, data, fields, i, projected) ==
    IF i > Len(data) THEN DocOk(objs, projected)
    ELSE LET new_doc == Ref(Len(objs) + 1)
             r == ProjectFields(Append(objs, EmptyDict), data[i], new_doc, fields, 1)
         IN  IF r.err # "" THEN [objs |-> r.objs, docs |-> <<>>, err |-> r.err]
             ELSE ProjectLoop(r.objs, data, fields, i + 1, Append(projected, new_doc))

NoSQL_apply_projection(objs, data, op) == ProjectLoop(objs, data, op.fields, 1, <<>>)

\* _apply_groupby: [{field: k, 'count': len(v)}] in key insertion order.
NoSQL_apply_groupby(objs, data, op) ==
    LET keys == IndexKeys(objs, data, op.field, 1)
        Count(key) ==
            Len(SelectSeq(data, LAMBDA doc :
                    DocStr(objs, _get_nested_value(objs, doc, op.field)) = key))
        rows == [g \in 1..Len(keys) |->
                    Dict([k \in {op.field, "count"} |->
                            IF k = "count" THEN Num(Count(keys[g])) ELSE keys[g]])]
    IN  DocOk(objs \o rows, [g \in 1..Len(keys) |-> Ref(Len(objs) + g)])

\* One operator of NoSQLExecutor.execute's loop.
NoSQLApplyOp(objs, result, join_data, op) ==
    CASE op.type = "filter"  -> NoSQL_apply_filter(objs, result, op)
      [] op.type = "join"    -> NoSQL_apply_join(objs, result, join_data, op)
      [] op.type = "project" -> NoSQL_apply_projection(objs, result, op)
      [] op.type = "groupby" -> NoSQL_apply_groupby(objs, result, op)
      [] op.type = "limit"   -> DocOk(objs, PySlice(result, op.value))
      [] OTHER -> DocOk(objs, result)

-----------------------------------------------------------------------------
(* In-memory execution: one executor over a loaded source.  The inputs are  *)
(* drawn from small pools of rows, tables and documents.                    *)
MaxDocs == 2
MaxDocOps == 2

AllOperators == {">", "<", ">=", "<=", "==", "!="}

\* Rows of a parsed file with header v,g: v is numeric or other text, g is
\* text, or None for a row that ends early.
R(v, g) == [v |-> v, g |-> g]
SqlRowPool ==
    {R(Str("2"), Str("A")), R(Str("10"), Str("A")), R(Str("2"), Str("B")),
     R(Str("x"), Str("B")), R(Str("10"), None), R(Str("2"), Str("None"))}
J(w, g) == [w |-> w, g |-> g]
SqlJoinTables ==
    {<<>>, <<J(Str("2"), Str("A"))>>,
     <<J(Str("2"), Str("A")), J(Str("10"), Str("A"))>>,
     <<J(Str("2"), Str("B")), J(Str("2"), Str("A"))>>,
     <<J(Str("2"), Str("A")), J(Str("10"), None)>>,
     <<[g |-> Str("A"), v |-> Str("x"), w |-> Str("2")]>>}
SqlFilters ==
    {Filter("v", o, Str("2")) : o \in AllOperators}
    \cup {Filter("g", o, Str("A")) : o \in {">", "=="}}
    \cup {Filter("v", ">", Str("x"))}
SqlSelects == {[type |-> "select", columns |-> c] : c \in {<<"v">>, <<"g", "v">>, <<"zz">>}}
SqlJoins ==
    {[type |-> "join", join_type |-> jt, main_key |-> k[1], join_key |-> k[2]] :
        jt \in {"INNER", "LEFT", "RIGHT"},
        k \in {<<"g", "g">>, <<"zz", "g">>, <<"g", "zz">>}}
SqlGroupbys ==
    {[type |-> "groupby", column |-> c, agg_func |-> f, agg_column |-> "v"] :
        c \in {"g"}, f \in {"", "SUM", "COUNT", "AVG", "MIN", "MAX"}}
    \cup {[type |-> "groupby", column |-> "v", agg_func |-> "COUNT", agg_column |-> "g"]}
Limits == {Limit(n) : n \in 0..MaxLimit}
SqlHavings ==
    {[type |-> "having", function |-> f, operator |-> o, value |-> Str("2")] :
        f \in {"COUNT", "SUM"}, o \in AllOperators}
SqlOrderbys == {OrderBy(dir) : dir \in {"ASC", "DESC"}}

\* Tables with headers g,v holding Python values; a row may be short.
TblRowPool ==
    {<<Str("A"), Num(2)>>, <<Str("A"), Num(10)>>, <<Str("B"), Num(2)>>,
     <<Str("B")>>, <<Str("B"), Str("x")>>, <<None, Num(2)>>}
RightTables ==
    {[headers |-> <<"k", "w">>, data |-> d] :
        d \in {<<>>, << <<Str("A"), Num(2)>> >>,
               << <<Str("A"), Num(2)>>, <<Str("A"), Num(10)>> >>,
               << <<Str("B"), Num(2)>>, <<Str("A"), Num(2)>> >>,
               << <<Str("A")>>, <<None, Num(2)>> >>}}
TblConds ==
    {[type |-> "filter", column |-> "v", operator |-> o, value |-> Num(2)] :
        o \in AllOperators}
    \cup {[type |-> "filter", column |-> "zz", operator |-> "==", value |-> Num(2)]}

\* Documents {a: ..., x: n}: a is absent, a number, or an object {}, {b: 1}
\* or {c: 1}.  BuildDocs allocates the documents of a collection.
DocShapes ==
    {[a |-> "b", x |-> 1], [a |-> "c", x |-> 2], [a |-> "empty", x |-> 1],
     [a |-> "num", x |-> 2]}
JoinShapes ==
    {<<>>, <<[k |-> Num(1)]>>, <<[k |-> Num(1)], [k |-> Str("1")]>>,
     <<[k |-> Num(2)], [k |-> Num(1)]>>}

RECURSIVE BuildDocs(_, _, _)
BuildDocs(heap0, shapes, i) ==
    IF i > Len(shapes) THEN [objs |-> heap0, docs |-> <<>>]
    ELSE LET id == Len(heap0) + 1
             sh == shapes[i]
             nested == IF sh.a = "b" THEN <<Dict([k \in {"b"} |-> Num(1)])>>
                       ELSE IF sh.a = "c" THEN <<Dict([k \in {"c"} |-> Num(1)])>>
                       ELSE IF sh.a = "empty" THEN <<EmptyDict>>
                       ELSE <<>>
             doc == IF sh.a = "num"
                    THEN Dict([k \in {"a", "x"} |-> IF k = "a" THEN Num(1) ELSE Num(sh.x)])
                    ELSE Dict([k \in {"a", "x"} |-> IF k = "a" THEN Ref(id + 1) ELSE Num(sh.x)])
             rest == BuildDocs(heap0 \o <<doc>> \o nested, shapes, i + 1)
         IN  [objs |-> rest.objs, docs |-> <<Ref(id)>> \o rest.docs]

DocFilters ==
    {[type |-> "filter", field |-> "x", operator |-> o, value |-> Num(1)] : o \in {"==", ">"}}
DocJoins == {[type |-> "join", main_field |-> "x", join_field |-> "k"]}
DocProjects ==
    {[type |-> "project", fields |-> f] : f \in {<<"a", "a.b">>, <<"a", "a.b.c">>, <<"x">>}}
DocGroupbys == {[type |-> "groupby", field |-> "x"]}

Seqs(pool, n) == UNION {[1..m -> pool] : m \in 0..n}

Init ==
    /\ NoSort /\ NoList /\ NoText /\ NoStream /\ NoLoad /\ NoParse
    /\ last_op = [type |-> "none"] /\ raised = "" /\ nops = 0 /\ prev = <<>>
    /\ \/ /\ engine = "sql"
          /\ source \in Seqs(SqlRowPool, MaxRows)
          /\ joined = <<>> /\ objects = <<>> /\ current = source
       \/ /\ engine = "chain"
          /\ source \in {[headers |-> <<"g", "v">>, data |-> d] : d \in Seqs(TblRowPool, MaxRows)}
          /\ joined = <<>> /\ objects = <<>> /\ current = source
       \/ /\ engine = "nosql"
          /\ \E shapes \in Seqs(DocShapes, MaxDocs), js \in JoinShapes :
                LET built == BuildDocs(<<>>, shapes, 1)
                    n == Len(built.objs)
                IN  /\ objects = built.objs \o [i \in 1..Len(js) |-> Dict(js[i])]
                    /\ source = built.docs
                    /\ joined = [i \in 1..Len(js) |-> Ref(n + i)]
                    /\ current = built.docs          \* result = self.data[:]

\* One operator of _execute_normal's loop, on QueryExecutor(data, headers,
\* join_data=jd) over an in-memory source.  The pipelines have one operator,
\* optionally followed by a limit.
SqlApply(o, jd) ==
    /\ engine = "sql" /\ raised = ""
    /\ LET r == ApplyOp(current, jd, o)
       IN  /\ joined' = jd /\ last_op' = o /\ prev' = current
           /\ current' = r.rows /\ raised' = r.err /\ nops' = nops + 1
    /\ UNCHANGED <<engine, source, objects>>
    /\ UNCHANGED <<sortVars, listVars, textVars, streamVars, loadVars, parseVars>>

SqlFilter == nops = 0 /\ \E o \in SqlFilters : SqlApply(o, <<>>)
SqlSelect == nops = 0 /\ \E o \in SqlSelects : SqlApply(o, <<>>)
SqlJoin == nops = 0 /\ \E o \in SqlJoins, jd \in SqlJoinTables : SqlApply(o, jd)
SqlGroupby == nops = 0 /\ \E o \in SqlGroupbys : SqlApply(o, <<>>)
SqlLimit == nops <= 1 /\ last_op.type # "limit" /\ \E o \in Limits : SqlApply(o, joined)
\* A having descriptor behind a group-by: the pipeline [groupby, having].
SqlHaving ==
    /\ nops = 1 /\ last_op.type = "groupby"
    /\ \E o \in SqlHavings : SqlApply(o, joined)
SqlOrderby == nops = 0 /\ \E o \in SqlOrderbys : SqlApply(o, <<>>)

\* QueryEngine.order_by(column, ascending).  The key of a row is the tuple of
\* its cell (None for a short row); sorted() compares two tuples by their
\* first unequal elements and raises TypeError when these are not two numbers
\* or two strings.
CellLess(a, b) == IF a.t = "null" THEN FALSE ELSE PyLess(a, b)
MixedCells(data, i) ==
    \E r, q \in 1..Len(data) : Cell(data[r], i).t # Cell(data[q], i).t
TblInsertStable(sorted, x, i, reverse) ==
    LET kx == Cell(x, i)
        After(e) == IF reverse THEN CellLess(Cell(e, i), kx) ELSE CellLess(kx, Cell(e, i))
        p == IF \E j \in 1..Len(sorted) : After(sorted[j])
             THEN (CHOOSE j \in 1..Len(sorted) :
                      After(sorted[j]) /\ \A l \in 1..(j-1) : ~After(sorted[l])) - 1
             ELSE Len(sorted)
    IN  SubSeq(sorted, 1, p) \o <<x>> \o SubSeq(sorted, p + 1, Len(sorted))
RECURSIVE TblSorted(_, _, _)
TblSorted(data, i, reverse) ==
    IF data = <<>> THEN <<>>
    ELSE TblInsertStable(TblSorted(SubSeq(data, 1, Len(data) - 1), i, reverse),
                         data[Len(data)], i, reverse)
order_by(table, column, ascending) ==
    IF ~InList(column, table.headers) THEN TblRaise("ValueError")
    ELSE LET i == IndexOf(table.headers, column)
         IN  IF MixedCells(table.data, i) THEN TblRaise("TypeError")
             ELSE TblOk(table.headers, TblSorted(table.data, i, ~ascending))

\* One chained call on QueryEngine(table); a raising call leaves self.result.
\* The chains have one call, optionally followed by limit(n).
ChainApply(o, r, right) ==
    /\ engine = "chain" /\ raised = ""
    /\ joined' = right /\ last_op' = o /\ prev' = current
    /\ current' = IF r.err = "" THEN [headers |-> r.headers, data |-> r.data] ELSE current
    /\ raised' = r.err /\ nops' = nops + 1
    /\ UNCHANGED <<engine, source, objects>>
    /\ UNCHANGED <<sortVars, listVars, textVars, streamVars, loadVars, parseVars>>

ChainFilter ==
    /\ nops = 0
    /\ \E cond \in TblConds : ChainApply(cond, FilterApply(current, cond), <<>>)
ChainSelect ==
    /\ nops = 0
    /\ \E columns \in {<<"v">>, <<"v", "g">>, <<"zz">>} :
          ChainApply([type |-> "select", columns |-> columns],
                     ProjectionApply(current, columns), <<>>)
ChainJoin ==
    /\ nops = 0
    /\ \E kind \in {"inner", "left"}, right \in RightTables,
          k \in {<<"g", "k">>, <<"zz", "k">>, <<"g", "zz">>} :
          ChainApply([type |-> "join", join_type |-> kind, main_key |-> k[1],
                      join_key |-> k[2]],
                     JoinTables(current, right, k[1], k[2], kind), right)
\* group_by([col]) then Aggregation.apply_to_groups: the result rows are kept
\* as the dicts apply_to_groups returns ("agg" is the f'{col}_{func}' entry).
ChainGroupby ==
    /\ nops = 0
    /\ \E col \in {"g", "zz"}, func \in {"sum", "count"} :
          LET r == GroupAggregate(current, col, "v", func)
          IN  ChainApply([type |-> "groupby", column |-> col, agg_func |-> func,
                          agg_column |-> "v"],
                         [err |-> r.err, headers |-> <<"group_key", "agg">>, data |-> r.rows],
                         <<>>)
ChainOrderby ==
    /\ nops = 0
    /\ \E col \in {"v", "g"}, dir \in {"ASC", "DESC"} :
          ChainApply([type |-> "orderby", column |-> col, direction |-> dir],
                     order_by(current, col, dir = "ASC"), <<>>)
ChainLimit ==
    /\ nops <= 1 /\ last_op.type # "limit"
    /\ \E o \in Limits :
          ChainApply(o, TblOk(current.headers, PySlice(current.data, o.value)), joined)

\* The filter just applied, applied once more to its own result: a pipeline
\* [filter, filter] of QueryExecutor, and table.filter(c).filter(c).
SqlFilterAgain ==
    /\ nops = 1 /\ last_op.type = "filter"
    /\ SqlApply(last_op, joined)

ChainFilterAgain ==
    /\ nops = 1 /\ last_op.type = "filter"
    /\ ChainApply(last_op, FilterApply(current, last_op), joined)

\* One operator of NoSQLExecutor.execute's loop.
DocApply(o) ==
    /\ nops < MaxDocOps /\ raised = ""
    /\ LET r == NoSQLApplyOp(objects, current, joined, o)
       IN  /\ objects' = r.objs /\ current' = r.docs /\ raised' = r.err
           /\ prev' = current /\ last_op' = o /\ nops' = nops + 1
    /\ UNCHANGED <<engine, source, joined>>
    /\ UNCHANGED <<sortVars, listVars, textVars, streamVars, loadVars, parseVars>>

DocFilter == engine = "nosql" /\ \E o \in DocFilters : DocApply(o)
DocJoin == engine = "nosql" /\ \E o \in DocJoins : DocApply(o)
DocProject == engine = "nosql" /\ \E o \in DocProjects : DocApply(o)
DocGroupby == engine = "nosql" /\ \E o \in DocGroupbys : DocApply(o)
DocLimit == engine = "nosql" /\ \E o \in Limits : DocApply(o)

Next ==
    \/ SqlFilter
    \/ SqlSelect
    \/ SqlJoin
    \/ SqlGroupby
    \/ SqlHaving
    \/ SqlOrderby
    \/ ChainOrderby
    \/ SqlLimit
    \/ ChainFilter
    \/ ChainSelect
    \/ ChainJoin
    \/ ChainGroupby
    \/ ChainLimit
    \/ SqlFilterAgain
    \/ ChainFilterAgain
    \/ DocFilter
    \/ DocJoin
    \/ DocProject
    \/ DocGroupby
    \/ DocLimit

Spec == Init /\ [][Next]_vars

-----------------------------------------------------------------------------
(* The operation list of the engine objects: SQLEngine                      *)
(* (components/sql_engine.py), NoSQLEngine (nosql_engine.py) and the older  *)
(* NoSQLEngine (components/nosql_engine.py).  A descriptor is modelled      *)
(* without its 'description' text.                                          *)
MaxOps == 3

EngineClasses == {"SQLEngine", "NoSQLEngine", "components.NoSQLEngine"}

\* The methods each class has.
HasMethod(cls, name) ==
    CASE cls = "SQLEngine" ->
            name \in {"add_filter", "add_select", "add_groupby", "add_limit",
                      "remove_operation", "clear_operations"}
      [] cls = "NoSQLEngine" ->
            name \in {"add_filter", "add_join", "add_projection", "add_groupby",
                      "add_limit", "remove_operation", "clear_operations"}
      [] OTHER ->
            name \in {"add_filter", "add_projection", "add_groupby", "add_limit",
                      "remove_operation", "clear_operations"}

\* A list removing one element too far.
PopNext(list, index) ==
    [k \in 1..(Len(list) - 1) |->
        IF k <= Min(index + 1, Len(list) - 1) THEN list[k] ELSE list[k + 1]]

\* list.pop(index) for 0 <= index < len(list): the list without that element.
Pop(list, index) ==
    [k \in 1..(Len(list) - 1) |-> IF k <= index THEN list[k] ELSE list[k + 1]]

\* One call on the engine object.  appended is the descriptor the call
\* appends, or <<>> when the call appends nothing.
ListCall(name, arg, after) ==
    /\ HasMethod(api, name)
    /\ oplist' = after /\ oplist_prev' = oplist
    /\ call' = [name |-> name, arg |-> arg]
    /\ UNCHANGED <<api, textVars, sortVars, pipeVars, streamVars, loadVars, parseVars>>

FilterDescriptor ==
    IF api = "SQLEngine" THEN Filter("v", ">", Str("2"))
    ELSE [type |-> "filter", field |-> "x", operator |-> "==", value |-> Num(1)]

add_filter ==
    /\ Len(oplist) < MaxOps
    /\ ListCall("add_filter", FilterDescriptor, Append(oplist, FilterDescriptor))

\* SQLEngine.add_select: `if columns:` guards the append.
add_select ==
    /\ Len(oplist) < MaxOps
    /\ \E columns \in {<<>>, <<"v">>, <<"g", "v">>} :
          ListCall("add_select", [type |-> "select", columns |-> columns],
                   IF columns # <<>>
                   THEN Append(oplist, [type |-> "select", columns |-> columns])
                   ELSE oplist)

add_join ==
    /\ Len(oplist) < MaxOps
    /\ LET d == [type |-> "join", main_field |-> "x", join_field |-> "k"]
       IN  ListCall("add_join", d, Append(oplist, d))

\* add_projection: the older class guards the append with `if fields:`.
add_projection ==
    /\ Len(oplist) < MaxOps
    /\ \E fields \in {<<>>, <<"a">>, <<"a", "a.b">>} :
          ListCall("add_projection", [type |-> "project", fields |-> fields],
                   IF api = "NoSQLEngine" \/ fields # <<>>
                   THEN Append(oplist, [type |-> "project", fields |-> fields])
                   ELSE oplist)

add_groupby ==
    /\ Len(oplist) < MaxOps
    /\ LET d == IF api = "SQLEngine"
                THEN [type |-> "groupby", column |-> "g", agg_func |-> None,
                      agg_column |-> None]
                ELSE [type |-> "groupby", field |-> "x"]
       IN  ListCall("add_groupby", d, Append(oplist, d))

add_limit ==
    /\ Len(oplist) < MaxOps
    /\ \E n \in 0..MaxLimit : ListCall("add_limit", Limit(n), Append(oplist, Limit(n)))

remove_operation ==
    /\ api \in EngineClasses
    /\ \E index \in -1..MaxOps :
          ListCall("remove_operation", index,
                   IF 0 <= index /\ index < Len(oplist) THEN Pop(oplist, index)
                   ELSE oplist)

clear_operations == api \in EngineClasses /\ ListCall("clear_operations", None, <<>>)

InitOps ==
    /\ NoSort /\ NoPipe /\ NoText /\ NoStream /\ NoLoad /\ NoParse
    /\ api \in EngineClasses
    /\ oplist = <<>> /\ oplist_prev = <<>> /\ call = [name |-> "none"]

NextOps ==
    \/ add_filter
    \/ add_select
    \/ add_join
    \/ add_projection
    \/ add_groupby
    \/ add_limit
    \/ remove_operation
    \/ clear_operations

SpecOps == InitOps /\ [][NextOps]_vars

-----------------------------------------------------------------------------
(* JSONParser (nosql_engine.py; parsers/json_parser.py is the same code).   *)
(* A text is a sequence of one-character strings; self.index is 0-based.    *)
MaxText == 4

Whitespace == {" ", "\t", "\n", "\r"}
DigitChars == <<"0", "1", "2", "3", "4", "5", "6", "7", "8", "9">>
IsDigit(c) == \E d \in 1..10 : DigitChars[d] = c
DigitVal(c) == (CHOOSE d \in 1..10 : DigitChars[d] = c) - 1
At(txt, idx) == txt[idx + 1]
\* text[a:b], which stops at the end of the text
Slice(txt, a, b) == SubSeq(txt, a + 1, IF b < Len(txt) THEN b ELSE Len(txt))
Chars(word) ==
    CASE word = "true"  -> <<"t", "r", "u", "e">>
      [] word = "false" -> <<"f", "a", "l", "s", "e">>
      [] word = "null"  -> <<"n", "u", "l", "l">>

\* content.strip()
RECURSIVE LStrip(_)
LStrip(txt) ==
    IF txt # <<>> /\ Head(txt) \in Whitespace THEN LStrip(Tail(txt)) ELSE txt
RECURSIVE RStrip(_)
RStrip(txt) ==
    IF txt # <<>> /\ txt[Len(txt)] \in Whitespace
    THEN RStrip(SubSeq(txt, 1, Len(txt) - 1)) ELSE txt
Strip(txt) == RStrip(LStrip(txt))
\* char in line
Has(line, char) == \E k \in 1..Len(line) : line[k] = char

\* The values the parser builds.  A dict is a function of its keys.
JStr(chars) == [t |-> "str", s |-> chars]
JBool(b) == [t |-> "bool", b |-> b]
JArr(items) == [t |-> "arr", items |-> items]
JObj(f) == [t |-> "obj", f |-> f]
NoMembers == [k \in {} |-> None]

\* A parsing method returns a value and the new self.index, or raises.
Parsed(idx, val) == [index |-> idx, val |-> val, err |-> ""]
ParseError(idx, e) == [index |-> idx, val |-> None, err |-> e]

RECURSIVE _skip_whitespace(_, _)
_skip_whitespace(txt, idx) ==
    IF idx < Len(txt) /\ At(txt, idx) \in Whitespace
    THEN _skip_whitespace(txt, idx + 1) ELSE idx

Unescape(c) ==
    CASE c = "n" -> "\n" [] c = "t" -> "\t" [] c = "r" -> "\r" [] OTHER -> c

RECURSIVE StringLoop(_, _, _)
StringLoop(txt, idx, result) ==
    IF idx >= Len(txt) THEN ParseError(idx, "ValueError")      \* Unterminated string
    ELSE LET char == At(txt, idx)
         IN  IF char = "\"" THEN Parsed(idx + 1, JStr(result))
             ELSE IF char = "\\"
             THEN IF idx + 1 < Len(txt)
                  THEN StringLoop(txt, idx + 2, Append(result, Unescape(At(txt, idx + 1))))
                  ELSE StringLoop(txt, idx + 1, result)
             ELSE StringLoop(txt, idx + 1, Append(result, char))

_parse_string(txt, idx) == StringLoop(txt, idx + 1, <<>>)

\* The index after a run of digits, and the number a run of digits denotes.
RECURSIVE Digits(_, _)
Digits(txt, idx) ==
    IF idx < Len(txt) /\ IsDigit(At(txt, idx)) THEN Digits(txt, idx + 1) ELSE idx
RECURSIVE DecVal(_)
DecVal(ds) ==
    IF ds = <<>> THEN 0 ELSE 10 * DecVal(SubSeq(ds, 1, Len(ds) - 1)) + DigitVal(ds[Len(ds)])
\* A float is kept as mantissa * 10^exp with a mantissa that does not end in
\* 0 (rounding to the nearest double is not modelled).
RECURSIVE Normal(_, _)
Normal(m, e) ==
    IF m = 0 THEN [t |-> "float", m |-> 0, e |-> 0]
    ELSE IF m % 10 = 0 THEN Normal(m \div 10, e + 1)
    ELSE [t |-> "float", m |-> m, e |-> e]

\* _parse_number: the scan, then int(num_str) or float(num_str), which raise
\* ValueError on a text without digits where they are needed.
_parse_number(txt, start) ==
    LET neg == At(txt, start) = "-"
        a == IF neg THEN start + 1 ELSE start
        b == Digits(txt, a)
        dot == b < Len(txt) /\ At(txt, b) = "."
        c == IF dot THEN Digits(txt, b + 1) ELSE b
        exp == c < Len(txt) /\ At(txt, c) \in {"e", "E"}
        signed == exp /\ c + 1 < Len(txt) /\ At(txt, c + 1) \in {"+", "-"}
        d0 == IF signed THEN c + 2 ELSE c + 1
        d == IF exp THEN Digits(txt, d0) ELSE c
        int_digits == Slice(txt, a, b)
        frac_digits == IF dot THEN Slice(txt, b + 1, c) ELSE <<>>
        exp_digits == IF exp THEN Slice(txt, d0, d) ELSE <<>>
        sign == IF neg THEN -1 ELSE 1
        expo == (IF signed /\ At(txt, c + 1) = "-" THEN -1 ELSE 1) * DecVal(exp_digits)
    IN  IF dot \/ exp
        THEN IF int_digits \o frac_digits = <<>> \/ (exp /\ exp_digits = <<>>)
             THEN ParseError(d, "ValueError")
             ELSE Parsed(d, Normal(sign * DecVal(int_digits \o frac_digits),
                                   expo - Len(frac_digits)))
        ELSE IF int_digits = <<>> THEN ParseError(d, "ValueError")
             ELSE Parsed(d, Num(sign * DecVal(int_digits)))

RECURSIVE _parse_value(_, _)
RECURSIVE ObjectLoop(_, _, _)
RECURSIVE ArrayLoop(_, _, _)

_parse_object(txt, idx0) ==
    LET idx == _skip_whitespace(txt, idx0 + 1)
    IN  IF idx < Len(txt) /\ At(txt, idx) = "}" THEN Parsed(idx + 1, JObj(NoMembers))
        ELSE ObjectLoop(txt, idx, NoMembers)

\* The while loop of _parse_object (lines 57-84).
ObjectLoop(txt, idx0, obj) ==
    IF idx0 >= Len(txt) THEN Parsed(idx0, JObj(obj))
    ELSE LET idx == _skip_whitespace(txt, idx0)
         IN  IF idx >= Len(txt) THEN ParseError(idx, "IndexError")
             ELSE IF At(txt, idx) # "\"" THEN ParseError(idx, "ValueError")
             ELSE LET key == _parse_string(txt, idx)
                      colon == _skip_whitespace(txt, key.index)
                  IN  IF key.err # "" THEN key
                      ELSE IF colon >= Len(txt) \/ At(txt, colon) # ":"
                      THEN ParseError(colon, "ValueError")
                      ELSE LET value == _parse_value(txt, colon + 1)
                               obj2 == [k \in DOMAIN obj \cup {key.val.s} |->
                                           IF k = key.val.s THEN value.val ELSE obj[k]]
                               sep == _skip_whitespace(txt, value.index)
                           IN  IF value.err # "" THEN value
                               ELSE IF sep >= Len(txt) THEN Parsed(sep, JObj(obj2))
                               ELSE IF At(txt, sep) = "," THEN ObjectLoop(txt, sep + 1, obj2)
                               ELSE IF At(txt, sep) = "}" THEN Parsed(sep + 1, JObj(obj2))
                               ELSE ObjectLoop(txt, sep, obj2)

_parse_array(txt, idx0) ==
    LET idx == _skip_whitespace(txt, idx0 + 1)
    IN  IF idx < Len(txt) /\ At(txt, idx) = "]" THEN Parsed(idx + 1, JArr(<<>>))
        ELSE ArrayLoop(txt, idx, <<>>)

\* The while loop of _parse_array (lines 96-111).
ArrayLoop(txt, idx, arr) ==
    IF idx >= Len(txt) THEN Parsed(idx, JArr(arr))
    ELSE LET value == _parse_value(txt, idx)
             arr2 == Append(arr, value.val)
             sep == _skip_whitespace(txt, value.index)
         IN  IF value.err # "" THEN value
             ELSE IF sep >= Len(txt) THEN Parsed(sep, JArr(arr2))
             ELSE IF At(txt, sep) = "," THEN ArrayLoop(txt, sep + 1, arr2)
             ELSE IF At(txt, sep) = "]" THEN Parsed(sep + 1, JArr(arr2))
             ELSE ArrayLoop(txt, sep, arr2)

_parse_value(txt, idx0) ==
    LET idx == _skip_whitespace(txt, idx0)
    IN  IF idx >= Len(txt) THEN Parsed(idx, None)
        ELSE LET char == At(txt, idx)
             IN  IF char = "{" THEN _parse_object(txt, idx)
                 ELSE IF char = "[" THEN _parse_array(txt, idx)
                 ELSE IF char = "\"" THEN _parse_string(txt, idx)
                 ELSE IF char = "-" \/ IsDigit(char) THEN _parse_number(txt, idx)
                 ELSE IF Slice(txt, idx, idx + 4) = Chars("true")
                 THEN Parsed(idx + 4, JBool(TRUE))
                 ELSE IF Slice(txt, idx, idx + 5) = Chars("false")
                 THEN Parsed(idx + 5, JBool(FALSE))
                 ELSE IF Slice(txt, idx, idx + 4) = Chars("null")
                 THEN Parsed(idx + 4, None)
                 ELSE ParseError(idx, "ValueError")    \* Unexpected character

\* JSONParser.parse_file on a file whose content is the text.
parse_file ==
    /\ parsed.t = "idle"
    /\ LET r == _parse_value(Strip(text), 0)
       IN  parsed' = IF r.err = "" THEN [t |-> "value", val |-> r.val, index |-> r.index]
                     ELSE [t |-> "error", err |-> r.err]
    /\ UNCHANGED <<text, listVars, sortVars, pipeVars, streamVars, loadVars, parseVars>>

\* The inputs: every text of up to MaxText characters over a small alphabet,
\* and some longer documents.
JsonAlphabet == {"{", "}", "[", "]", "\"", ":", ",", "1", "x", " "}
Documents ==
    {<<"[", "1", " ", "1", "]">>,
     <<"[", "1", ",", "1", "]">>,
     <<"[", "1", "[", "]", "]">>,
     <<"{", "\"", "a", "\"", ":", "1", "}">>,
     <<"{", "\"", "a", "\"", ":", "1">>,
     <<"{", "\"", "a", "\"", " ", "1", "}">>,
     <<"{", "a", ":", "1", "}">>,
     <<"{", "\"", "a", "\"", ":", "1", " ", "\"", "b", "\"", ":", "1", "}">>,
     <<"{", "\"", "a", "\"", ":", "1", ",", "\"", "b", "\"", ":", "[", "]", "}">>,
     <<"{", "\"", "a", "\"", ":", "}">>,
     <<"[", "n", "u", "l", "l", ",", "t", "r", "u", "e", ",", "f", "a", "l", "s", "e", "]">>,
     <<"[", "-", "1", ".", "5", "0", ",", "1", "e", "2", "]">>,
     <<"[", "-", "]">>,
     <<"\"", "a", "\\", "n", "\\", "\"", "\"">>,
     <<"\"", "a", "\\">>}
JsonTexts == Seqs(JsonAlphabet, MaxText) \cup Documents

InitJson ==
    /\ NoSort /\ NoPipe /\ NoList /\ NoStream /\ NoLoad /\ NoParse
    /\ text \in JsonTexts /\ parsed = [t |-> "idle"]

NextJson == parse_file

SpecJson == InitJson /\ [][NextJson]_vars

-----------------------------------------------------------------------------
(* The line parsers: CSVParser._parse_line (csv_parser.py) and              *)
(* CSVParser.parse_line (sql_component/parsers/csv_parser.py), both with    *)
(* the default delimiter, quote and escape characters.  A field is a        *)
(* sequence of characters.                                                  *)
MaxLine == 5

delimiter == ","
quote_char == "\""
escape_char == "\\"

\* The loop of _parse_line over the stripped line; i is 0-based.
RECURSIVE ParseLineLoop(_, _, _, _, _)
ParseLineLoop(line, i, values, current_value, in_quotes) ==
    IF i >= Len(line) THEN Append(values, Strip(current_value))
    ELSE LET char == At(line, i)
         IN  IF char = quote_char
             THEN IF in_quotes /\ i + 1 < Len(line) /\ At(line, i + 1) = quote_char
                  THEN ParseLineLoop(line, i + 2, values,
                                     Append(current_value, quote_char), in_quotes)
                  ELSE ParseLineLoop(line, i + 1, values, current_value, ~in_quotes)
             ELSE IF char = delimiter /\ ~in_quotes
             THEN ParseLineLoop(line, i + 1, Append(values, Strip(current_value)),
                                <<>>, in_quotes)
             ELSE ParseLineLoop(line, i + 1, values, Append(current_value, char),
                                in_quotes)

\* A scan of the stripped line that starts inside a quoted value.
_parse_line_quoted(line) == ParseLineLoop(Strip(line), 0, <<>>, <<>>, TRUE)

_parse_line(line) == ParseLineLoop(Strip(line), 0, <<>>, <<>>, FALSE)

\* The loop of parse_line over the characters of the line.
RECURSIVE ParseLineChars(_, _, _, _, _, _)
ParseLineChars(line, i, fields, current_field, in_quotes, escape_next) ==
    IF i >= Len(line) THEN Append(fields, Strip(current_field))
    ELSE LET char == At(line, i)
         IN  IF escape_next
             THEN ParseLineChars(line, i + 1, fields, Append(current_field, char),
                                 in_quotes, FALSE)
             ELSE IF char = escape_char
             THEN ParseLineChars(line, i + 1, fields, current_field, in_quotes, TRUE)
             ELSE IF char = quote_char
             THEN ParseLineChars(line, i + 1, fields, current_field, ~in_quotes, FALSE)
             ELSE IF char = delimiter /\ ~in_quotes
             THEN ParseLineChars(line, i + 1, Append(fields, Strip(current_field)),
                                 <<>>, in_quotes, FALSE)
             ELSE ParseLineChars(line, i + 1, fields, Append(current_field, char),
                                 in_quotes, FALSE)

\* A scan that starts inside a quoted field.
parse_line_quoted(line) == ParseLineChars(line, 0, <<>>, <<>>, TRUE, FALSE)

parse_line(line) == ParseLineChars(line, 0, <<>>, <<>>, FALSE, FALSE)

\* One call of a line parser on the text.
ParseLineOld ==
    /\ parsed.t = "idle"
    /\ parsed' = [t |-> "fields", by |-> "_parse_line", fields |-> _parse_line(text)]
    /\ UNCHANGED <<text, listVars, sortVars, pipeVars, streamVars, loadVars, parseVars>>

ParseLineNew ==
    /\ parsed.t = "idle"
    /\ parsed' = [t |-> "fields", by |-> "parse_line", fields |-> parse_line(text)]
    /\ UNCHANGED <<text, listVars, sortVars, pipeVars, streamVars, loadVars, parseVars>>

LineAlphabet == {"a", "b", ",", "\"", " ", "\\"}
Lines == Seqs(LineAlphabet, MaxLine)

InitCsv ==
    /\ NoSort /\ NoPipe /\ NoList /\ NoStream /\ NoLoad /\ NoParse
    /\ text \in Lines /\ parsed = [t |-> "idle"]

NextCsv ==
    \/ ParseLineOld
    \/ ParseLineNew

SpecCsv == InitCsv /\ [][NextCsv]_vars

-----------------------------------------------------------------------------
(* DataTypeInferrer.infer_type (sql_component/parsers/data_types.py).  A    *)
(* token is a sequence of characters.                                       *)
MaxToken == 4

UpperLetters == <<"A", "E", "F", "L", "N", "O", "R", "S", "T", "U", "Y">>
LowerLetters == <<"a", "e", "f", "l", "n", "o", "r", "s", "t", "u", "y">>
LowerChar(c) ==
    IF \E k \in 1..Len(UpperLetters) : UpperLetters[k] = c
    THEN LowerLetters[CHOOSE k \in 1..Len(UpperLetters) : UpperLetters[k] = c]
    ELSE c
\* value.lower()
Lower(value) == [k \in 1..Len(value) |-> LowerChar(value[k])]

AllDigits(value) == \A k \in 1..Len(value) : IsDigit(value[k])

\* int(value): surrounding whitespace, an optional sign, then digits.
\* ValueError is [ok |-> FALSE].
PyInt(value) ==
    LET v == Strip(value)
        signed == v # <<>> /\ v[1] \in {"+", "-"}
        body == IF signed THEN Tail(v) ELSE v
    IN  IF body # <<>> /\ AllDigits(body)
        THEN [ok |-> TRUE, n |-> IF signed /\ v[1] = "-" THEN 0 - DecVal(body) ELSE DecVal(body)]
        ELSE [ok |-> FALSE]

\* float(value): surrounding whitespace, an optional sign, then inf, infinity
\* or nan, or digits with an optional point and an optional exponent.
SpecialFloats ==
    {<<"i", "n", "f">>, <<"n", "a", "n">>, <<"i", "n", "f", "i", "n", "i", "t", "y">>}

FloatLiteral(value) ==
    LET v == Lower(Strip(value))
        signed == v # <<>> /\ v[1] \in {"+", "-"}
        neg == signed /\ v[1] = "-"
        start == IF signed THEN 1 ELSE 0
        i1 == Digits(v, start)
        point == i1 < Len(v) /\ At(v, i1) = "."
        i2 == IF point THEN Digits(v, i1 + 1) ELSE i1
        whole == Slice(v, start, i1)
        frac == IF point THEN Slice(v, i1 + 1, i2) ELSE <<>>
        expo == i2 < Len(v) /\ At(v, i2) = "e"
        esigned == expo /\ i2 + 1 < Len(v) /\ At(v, i2 + 1) \in {"+", "-"}
        j == IF esigned THEN i2 + 2 ELSE i2 + 1
        k == IF expo THEN Digits(v, j) ELSE i2
        evalue == IF ~expo THEN 0
                  ELSE IF esigned /\ At(v, i2 + 1) = "-" THEN 0 - DecVal(Slice(v, j, k))
                  ELSE DecVal(Slice(v, j, k))
        m == DecVal(whole \o frac)
    IN  IF (IF signed THEN Tail(v) ELSE v) \in SpecialFloats
        THEN [ok |-> TRUE, val |-> [t |-> "float", special |-> IF signed THEN Tail(v) ELSE v, neg |-> neg]]
        ELSE IF /\ whole \o frac # <<>>
                /\ expo => k > j
                /\ k = Len(v)
        THEN [ok |-> TRUE, val |-> Normal(IF neg THEN 0 - m ELSE m, evalue - Len(frac))]
        ELSE [ok |-> FALSE]

NullWords ==
    {<<"n", "u", "l", "l">>, <<"n", "a">>, <<"n", "/", "a">>, <<"n", "o", "n", "e">>, <<>>}
TrueWords == {<<"t", "r", "u", "e">>, <<"t">>, <<"y", "e", "s">>, <<"y">>, <<"1">>}
FalseWords == {<<"f", "a", "l", "s", "e">>, <<"f">>, <<"n", "o">>, <<"n">>, <<"0">>}

\* The results of the checks: a value or Nothing (Python's None).
Nothing == [k |-> "none"]
_try_boolean(value) ==
    IF Lower(value) \in TrueWords THEN [k |-> "bool", b |-> TRUE]
    ELSE IF Lower(value) \in FalseWords THEN [k |-> "bool", b |-> FALSE]
    ELSE Nothing

_try_integer(value) ==
    IF PyInt(value).ok THEN [k |-> "int", n |-> PyInt(value).n] ELSE Nothing

_try_float(value) ==
    IF FloatLiteral(value).ok /\ (Has(value, ".") \/ Has(Lower(value), "e"))
    THEN [k |-> "float", f |-> FloatLiteral(value).val]
    ELSE Nothing

\* value.replace('-', '/').split('/')
RECURSIVE DateParts(_, _)
DateParts(value, part) ==
    IF value = <<>> THEN <<part>>
    ELSE IF Head(value) \in {"-", "/"}
         THEN <<part>> \o DateParts(Tail(value), <<>>)
         ELSE DateParts(Tail(value), Append(part, Head(value)))

\* p.split()[0]: the first run of characters that are not whitespace, <<>>
\* when there is none (where the subscript raises IndexError).
RECURSIVE FirstRun(_)
FirstRun(p) ==
    IF p = <<>> \/ Head(p) \in Whitespace THEN <<>> ELSE <<Head(p)>> \o FirstRun(Tail(p))
FirstWord(p) == FirstRun(LStrip(p))

\* The list comprehension of _try_date, part by part: "IndexError",
\* "ValueError", or the numbers.
RECURSIVE DateNums(_, _)
DateNums(parts, nums) ==
    IF parts = <<>> THEN [out |-> "nums", nums |-> nums]
    ELSE IF FirstWord(Head(parts)) = <<>> THEN [out |-> "IndexError"]
    ELSE IF ~PyInt(FirstWord(Head(parts))).ok THEN [out |-> "ValueError"]
    ELSE DateNums(Tail(parts), Append(nums, PyInt(FirstWord(Head(parts))).n))

\* _try_date: the value, Nothing, or the IndexError that `except ValueError`
\* does not catch.
_try_date(value) ==
    IF Has(value, "-") \/ Has(value, "/")
    THEN LET parts == DateParts(value, <<>>)
             r == IF Len(parts) = 3 THEN DateNums(parts, <<>>) ELSE [out |-> "ValueError"]
         IN  IF r.out = "IndexError" THEN [k |-> "raise", err |-> "IndexError"]
             ELSE IF r.out = "nums" /\ \E n \in 1..Len(r.nums) : r.nums[n] > 0
             THEN [k |-> "str", s |-> value]
             ELSE Nothing
    ELSE Nothing

Typed(val, type) == [t |-> "typed", val |-> val, type |-> type]

infer_type(value) ==
    IF value = <<>> THEN Typed(Nothing, "null")
    ELSE LET v == Strip(value)
         IN  IF Lower(v) \in NullWords THEN Typed(Nothing, "null")
             ELSE IF _try_boolean(v) # Nothing THEN Typed(_try_boolean(v), "boolean")
             ELSE IF _try_integer(v) # Nothing THEN Typed(_try_integer(v), "integer")
             ELSE IF _try_float(v) # Nothing THEN Typed(_try_float(v), "float")
             ELSE IF _try_date(v).k = "raise" THEN [t |-> "error", err |-> _try_date(v).err]
             ELSE IF _try_date(v) # Nothing THEN Typed(_try_date(v), "date")
             ELSE Typed([k |-> "str", s |-> v], "string")

\* One call of infer_type on the token.
InferType ==
    /\ parsed.t = "idle"
    /\ parsed' = infer_type(text)
    /\ UNCHANGED <<text, listVars, sortVars, pipeVars, streamVars, loadVars, parseVars>>

TypeAlphabet == {"0", "1", "2", ".", "e", "-", "/", " ", "n", "a"}
TypeDocuments ==
    {<<"1", "2", "3">>, <<"1", "2", "3", ".", "0">>, <<"1", "2", "3", ".", "4", "5">>,
     <<"h", "e", "l", "l", "o">>, <<"T", "R", "U", "E">>, <<"F", "a", "l", "s", "e">>,
     <<"N", "U", "L", "L">>, <<"N", "o", "n", "e">>, <<"Y">>, <<"y", "e", "s">>,
     <<"1", "E", "2">>, <<"n", "a", "n">>, <<"i", "n", "f">>, <<"+", "1">>,
     <<"2", "0", "2", "4", "-", "0", "1", "-", "1", "5">>,
     <<"2", "0", "2", "4", "-", "-", "0", "1">>,
     <<"0", "1", "/", "1", "5", "/", "2", "0", "2", "4">>}
Tokens == Seqs(TypeAlphabet, MaxToken) \cup TypeDocuments

InitType ==
    /\ NoSort /\ NoPipe /\ NoList /\ NoStream /\ NoLoad /\ NoParse
    /\ text \in Tokens /\ parsed = [t |-> "idle"]

NextType == InferType

SpecType == InitType /\ [][NextType]_vars

-----------------------------------------------------------------------------
(* The batch generators: ChunkReader.read_chunks (chunk_reader.py), whose   *)
(* parser is the CSVParser of sql_component, and                            *)
(* CSVParser.parse_file_in_chunks (csv_parser.py).  A step of a generator   *)
(* reads one line of the file; file.readline() and iteration at the end of  *)
(* the file give the empty string / stop.                                   *)
MaxFileLines == 4

\* {headers[i]: row_data[i] if i < len(row_data) else None for i in range(len(headers))}
RowDict(headers, row_data) ==
    [h \in {headers[i] : i \in 1..Len(headers)} |->
        LET i == CHOOSE j \in 1..Len(headers) :
                     headers[j] = h /\ \A l \in (j+1)..Len(headers) : headers[l] # h
        IN  IF i <= Len(row_data) THEN row_data[i] ELSE None]

\* f'column_{i}' for i in range(n)
ColumnNames(n) == [i \in 1..n |-> <<"column_", i - 1>>]

\* The dict read_chunks yields.
Chunk(is_last) ==
    [headers |-> gen.headers, data |-> gen.chunk_data,
     chunk_number |-> gen.chunk_number, rows_in_chunk |-> Len(gen.chunk_data),
     total_rows_so_far |-> gen.total_rows, is_last |-> is_last]

\* read_chunks, lines 39-53: the first line.
read_chunks_first_line ==
    /\ gen.reader = "ChunkReader" /\ gen.at = "start"
    /\ LET first_line == IF file_lines = <<>> THEN <<>> ELSE Strip(file_lines[1])
           rd == IF file_lines = <<>> THEN 0 ELSE 1
       IN  gen' = IF first_line = <<>>
                  THEN [gen EXCEPT !.at = "done", !.rd = rd]
                  ELSE IF gen.has_header
                  THEN [gen EXCEPT !.at = "loop", !.rd = rd,
                                   !.headers = parse_line(first_line)]
                  ELSE LET first_fields == parse_line(first_line)
                       IN  [gen EXCEPT !.at = "loop", !.rd = rd,
                                       !.headers = ColumnNames(Len(first_fields)),
                                       !.chunk_data = <<first_fields>>,
                                       !.total_rows = 1]
    /\ UNCHANGED <<file_lines, batches>>
    /\ UNCHANGED <<sortVars, pipeVars, listVars, textVars, loadVars, parseVars>>

\* read_chunks, lines 56-78: one iteration of  for line in file.
read_chunks_line ==
    /\ gen.reader = "ChunkReader" /\ gen.at = "loop" /\ gen.rd < Len(file_lines)
    /\ LET line == Strip(file_lines[gen.rd + 1])
           read == [gen EXCEPT !.rd = gen.rd + 1]
       IN  IF line = <<>>
           THEN gen' = read /\ batches' = batches
           ELSE LET appended == [read EXCEPT
                                    !.chunk_data = Append(gen.chunk_data, parse_line(line)),
                                    !.total_rows = gen.total_rows + 1]
                IN  IF Len(appended.chunk_data) >= gen.chunk_size
                    THEN /\ batches' = Append(batches,
                                [headers |-> appended.headers,
                                 data |-> appended.chunk_data,
                                 chunk_number |-> appended.chunk_number,
                                 rows_in_chunk |-> Len(appended.chunk_data),
                                 total_rows_so_far |-> appended.total_rows,
                                 is_last |-> FALSE])
                         /\ gen' = [appended EXCEPT !.chunk_data = <<>>,
                                                    !.chunk_number = gen.chunk_number + 1]
                    ELSE /\ batches' = batches
                         /\ gen' = appended
    /\ UNCHANGED file_lines
    /\ UNCHANGED <<sortVars, pipeVars, listVars, textVars, loadVars, parseVars>>

\* read_chunks, lines 80-89: the file is exhausted.
read_chunks_end ==
    /\ gen.reader = "ChunkReader" /\ gen.at = "loop" /\ gen.rd = Len(file_lines)
    /\ batches' = IF gen.chunk_data # <<>> THEN Append(batches, Chunk(TRUE)) ELSE batches
    /\ gen' = [gen EXCEPT !.at = "done"]
    /\ UNCHANGED file_lines
    /\ UNCHANGED <<sortVars, pipeVars, listVars, textVars, loadVars, parseVars>>

\* parse_file_in_chunks, lines 42-46: the header line.
parse_file_in_chunks_header ==
    /\ gen.reader = "CSVParser" /\ gen.at = "start"
    /\ LET header_line == IF file_lines = <<>> THEN <<>> ELSE file_lines[1]
       IN  gen' = [gen EXCEPT !.at = "loop",
                              !.rd = IF file_lines = <<>> THEN 0 ELSE 1,
                              !.headers = _parse_line(header_line)]
    /\ UNCHANGED <<file_lines, batches>>
    /\ UNCHANGED <<sortVars, pipeVars, listVars, textVars, loadVars, parseVars>>

\* parse_file_in_chunks, lines 46-61: one iteration of  for line in f.  Nothing
\* in the try block raises while the consumer keeps iterating.
parse_file_in_chunks_line ==
    /\ gen.reader = "CSVParser" /\ gen.at = "loop" /\ gen.rd < Len(file_lines)
    /\ LET line == file_lines[gen.rd + 1]
           read == [gen EXCEPT !.rd = gen.rd + 1]
       IN  IF Strip(line) = <<>>
           THEN gen' = read /\ batches' = batches
           ELSE LET chunk == Append(gen.chunk_data, RowDict(gen.headers, _parse_line(line)))
                IN  IF Len(chunk) >= gen.chunk_size
                    THEN /\ batches' = Append(batches, chunk)
                         /\ gen' = [read EXCEPT !.chunk_data = <<>>]
                    ELSE /\ batches' = batches
                         /\ gen' = [read EXCEPT !.chunk_data = chunk]
    /\ UNCHANGED file_lines
    /\ UNCHANGED <<sortVars, pipeVars, listVars, textVars, loadVars, parseVars>>

\* parse_file_in_chunks, lines 63-64: the file is exhausted.
parse_file_in_chunks_end ==
    /\ gen.reader = "CSVParser" /\ gen.at = "loop" /\ gen.rd = Len(file_lines)
    /\ batches' = IF gen.chunk_data # <<>> THEN Append(batches, gen.chunk_data) ELSE batches
    /\ gen' = [gen EXCEPT !.at = "done"]
    /\ UNCHANGED file_lines
    /\ UNCHANGED <<sortVars, pipeVars, listVars, textVars, loadVars, parseVars>>

\* The inputs: files of up to MaxFileLines lines, each empty, blank, or a row
\* of one or two fields; a batch size; the reader and its has_header flag.
FileLinePool == {<<>>, <<" ">>, <<"a">>, <<"a", ",", "b">>}
InitStream ==
    /\ NoSort /\ NoPipe /\ NoList /\ NoText /\ NoLoad /\ NoParse
    /\ file_lines \in Seqs(FileLinePool, MaxFileLines)
    /\ batches = <<>>
    /\ \E reader \in {"ChunkReader", "CSVParser"}, k \in 1..MaxChunk, has_header \in BOOLEAN :
          /\ reader = "CSVParser" => has_header
          /\ gen = [reader |-> reader, chunk_size |-> k, has_header |-> has_header,
                    at |-> "start", rd |-> 0, headers |-> <<>>, chunk_data |-> <<>>,
                    chunk_number |-> 0, total_rows |-> 0]

NextStream ==
    \/ read_chunks_first_line
    \/ read_chunks_line
    \/ read_chunks_end
    \/ parse_file_in_chunks_header
    \/ parse_file_in_chunks_line
    \/ parse_file_in_chunks_end

SpecStream == InitStream /\ [][NextStream]_vars

-----------------------------------------------------------------------------
(* Loading a source into an engine object: SQLEngine.load_data              *)
(* (components/sql_engine.py) and NoSQLEngine.load_data (nosql_engine.py).  *)
(* file_obj is an uploaded file: its content, whether its bytes decode as   *)
(* UTF-8, and whether the object has a name attribute.                      *)
MaxLoads == 2

\* CSVParser.parse_file: content.strip().split('\n'), the first line is the
\* header, blank lines are skipped.
RECURSIVE StripFile(_)
StripFile(content) ==
    IF content = <<>> THEN <<>>
    ELSE IF Strip(content[1]) = <<>> THEN StripFile(Tail(content))
    ELSE IF Strip(content[Len(content)]) = <<>>
    THEN StripFile(SubSeq(content, 1, Len(content) - 1))
    ELSE content
CsvParseFile(content) ==
    LET stripped == StripFile(content)
        headers == _parse_line(IF stripped = <<>> THEN <<>> ELSE stripped[1])
        NotBlank(line) == Strip(line) # <<>>
        rest == SelectSeq(SubSeq(stripped, 2, Len(stripped)), NotBlank)
    IN  [headers |-> headers,
         data |-> [i \in 1..Len(rest) |-> RowDict(headers, _parse_line(rest[i]))]]

\* CSVParser.get_file_info: the header of the first line of the file.
get_file_info(content) == _parse_line(IF content = <<>> THEN <<>> ELSE content[1])

\* The return of load_data and the fields it leaves.
Loaded(fields) == [ok |-> TRUE, err |-> "", fields |-> fields]
LoadFailed(e, fields) == [ok |-> FALSE, err |-> e, fields |-> fields]

\* SQLEngine.load_data(file_obj, chunk_size); path is the name of the
\* temporary file a streaming load writes.
SQLEngine_load_data(this, file_obj, size, path) ==
    IF size # 0
    THEN LET saved == [this EXCEPT !.file_path = path]
         IN  IF ~file_obj.utf8 THEN LoadFailed("UnicodeDecodeError", saved)
             ELSE LET info == [saved EXCEPT !.headers = get_file_info(file_obj.content),
                                            !.chunked = TRUE, !.chunk_size = size,
                                            !.data = None]
                  IN  IF ~file_obj.named THEN LoadFailed("AttributeError", info)
                      ELSE Loaded([info EXCEPT !.filename = file_obj.name,
                                               !.operations = <<>>])
    ELSE IF ~file_obj.utf8 THEN LoadFailed("UnicodeDecodeError", this)
         ELSE LET result == CsvParseFile(file_obj.content)
                  parsed_fields == [this EXCEPT !.headers = result.headers,
                                                !.data = result.data,
                                                !.chunked = FALSE]
              IN  IF ~file_obj.named THEN LoadFailed("AttributeError", parsed_fields)
                  ELSE Loaded([parsed_fields EXCEPT !.filename = file_obj.name,
                                                    !.operations = <<>>])

\* NoSQLEngine.load_data(file_obj): JSONParser.parse_file raises on a text
\* that is no document.
NoSQLEngine_load_data(this, file_obj) ==
    IF ~file_obj.utf8 THEN LoadFailed("UnicodeDecodeError", this)
    ELSE LET r == _parse_value(Strip(file_obj.content), 0)
         IN  IF r.err # "" THEN LoadFailed(r.err, this)
             ELSE LET data_set == [this EXCEPT !.data = r.val]
                  IN  IF ~file_obj.named THEN LoadFailed("AttributeError", data_set)
                      ELSE Loaded([data_set EXCEPT !.filename = file_obj.name,
                                                   !.operations = <<>>])

\* The uploads.
CsvContents ==
    {<< <<"a", ",", "b">>, <<"a">> >>, << <<"b">>, <<>>, <<"a", ",", "b">> >>}
JsonContents == {<<"[", "1", "]">>, <<"{", "}">>, <<"{", "1", "}">>}
Uploads(contents) ==
    {[content |-> c, utf8 |-> u, named |-> n, name |-> c] :
        c \in contents, u \in BOOLEAN, n \in BOOLEAN}

\* One call of load_data on the engine object.
LoadCall(r) ==
    /\ self_before' = self
    /\ self' = r.fields
    /\ load' = [n |-> load.n + 1, ok |-> r.ok, err |-> r.err]
    /\ executor' = [built |-> FALSE]
    /\ UNCHANGED <<sortVars, pipeVars, listVars, textVars, streamVars, parseVars>>

sql_load_data ==
    /\ self.class = "SQLEngine" /\ load.n < MaxLoads
    /\ \E file_obj \in Uploads(CsvContents), size \in {0, MaxChunk} :
          /\ temp_store' = IF size # 0 THEN Append(temp_store, file_obj.content)
                           ELSE temp_store
          /\ LoadCall(SQLEngine_load_data(self, file_obj, size, Len(temp_store) + 1))

nosql_load_data ==
    /\ self.class = "NoSQLEngine" /\ load.n < MaxLoads
    /\ temp_store' = temp_store
    /\ \E file_obj \in Uploads(JsonContents) :
          LoadCall(NoSQLEngine_load_data(self, file_obj))

\* add_limit(n) between two loads: the operation list is not empty.
load_add_limit ==
    /\ load.n >= 1 /\ Len(self.operations) < 1
    /\ self' = [self EXCEPT !.operations = Append(self.operations, Limit(1))]
    /\ UNCHANGED <<self_before, load, temp_store, executor>>
    /\ UNCHANGED <<sortVars, pipeVars, listVars, textVars, streamVars, parseVars>>

\* SQLEngine.execute: the executor it builds and the list it runs.
sql_execute ==
    /\ self.class = "SQLEngine" /\ load.n >= 1 /\ ~executor.built
    /\ executor' = [built |-> TRUE, data |-> self.data, headers |-> self.headers,
                    file_path |-> self.file_path, chunked |-> self.chunked,
                    chunk_size |-> self.chunk_size, operations |-> self.operations]
    /\ UNCHANGED <<self, self_before, load, temp_store>>
    /\ UNCHANGED <<sortVars, pipeVars, listVars, textVars, streamVars, parseVars>>

\* The engine objects after __init__.
NewSQLEngine ==
    [class |-> "SQLEngine", data |-> None, headers |-> None, filename |-> None,
     chunked |-> FALSE, chunk_size |-> None, file_path |-> None, operations |-> <<>>]
NewNoSQLEngine ==
    [class |-> "NoSQLEngine", data |-> None, filename |-> None, join_data |-> None,
     join_filename |-> None, operations |-> <<>>]

InitLoad ==
    /\ NoSort /\ NoPipe /\ NoList /\ NoText /\ NoStream /\ NoParse
    /\ self \in {NewSQLEngine, NewNoSQLEngine}
    /\ self_before = self
    /\ load = [n |-> 0, ok |-> TRUE, err |-> ""]
    /\ temp_store = <<>>
    /\ executor = [built |-> FALSE]

NextLoad ==
    \/ sql_load_data
    \/ nosql_load_data
    \/ load_add_limit
    \/ sql_execute

SpecLoad == InitLoad /\ [][NextLoad]_vars

-----------------------------------------------------------------------------
(* JSONParser step by step: self.index is the cursor, a frame of the stack  *)
(* is a call of _parse_value, _parse_object, _parse_array, _parse_string or *)
(* _parse_number, and a step runs a call up to its next nested call, its    *)
(* next loop iteration, its return or its exception.  A loop frame keeps    *)
(* the cursor at the start of its latest iteration (-1 before the first).   *)
MaxStepText == 3

SelfText == Strip(text)
Top == stack[Len(stack)]
Frame(k, phase, acc) == [k |-> k, phase |-> phase, acc |-> acc, key |-> <<>>,
                         start |-> 0, head |-> -1]
NoReturn == [has |-> FALSE]

\* return val with self.index = idx; raise e with self.index = idx.
Return(val, idx) ==
    /\ cursor' = idx /\ stack' = SubSeq(stack, 1, Len(stack) - 1)
    /\ ret' = [has |-> TRUE, val |-> val] /\ parsed' = parsed
Fail(e, idx) ==
    /\ cursor' = idx /\ stack' = <<>> /\ ret' = NoReturn
    /\ parsed' = [t |-> "error", err |-> e]
\* go on in the frame f, with self.index = idx
Continue(f, idx) ==
    /\ cursor' = idx /\ stack' = [stack EXCEPT ![Len(stack)] = f]
    /\ ret' = NoReturn /\ parsed' = parsed
\* call a method from the frame f, with self.index = idx
Call(f, callee, idx) ==
    /\ cursor' = idx /\ stack' = Append([stack EXCEPT ![Len(stack)] = f], callee)
    /\ ret' = NoReturn /\ parsed' = parsed

\* _parse_value, and lines 47-55 / 86-94 of the container it dispatches to.
step_parse_value ==
    /\ stack # <<>> /\ Top.k = "value"
    /\ LET txt == SelfText
           idx == _skip_whitespace(txt, cursor)
           char == At(txt, idx)
           inner == _skip_whitespace(txt, idx + 1)
       IN  IF idx >= Len(txt) THEN Return(None, idx)
           ELSE IF char = "{"
           THEN IF inner < Len(txt) /\ At(txt, inner) = "}"
                THEN Return(JObj(NoMembers), inner + 1)
                ELSE Continue(Frame("object", "head", NoMembers), inner)
           ELSE IF char = "["
           THEN IF inner < Len(txt) /\ At(txt, inner) = "]"
                THEN Return(JArr(<<>>), inner + 1)
                ELSE Continue(Frame("array", "head", <<>>), inner)
           ELSE IF char = "\"" THEN Continue(Frame("string", "loop", <<>>), idx + 1)
           ELSE IF char = "-" \/ IsDigit(char)
           THEN Continue([Frame("number", "int", <<>>) EXCEPT !.start = idx],
                         IF char = "-" THEN idx + 1 ELSE idx)
           ELSE IF Slice(txt, idx, idx + 4) = Chars("true") THEN Return(JBool(TRUE), idx + 4)
           ELSE IF Slice(txt, idx, idx + 5) = Chars("false") THEN Return(JBool(FALSE), idx + 5)
           ELSE IF Slice(txt, idx, idx + 4) = Chars("null") THEN Return(None, idx + 4)
           ELSE Fail("ValueError", idx)
    /\ UNCHANGED <<text, sortVars, pipeVars, listVars, streamVars, loadVars>>

\* _parse_object, lines 57-63: the loop test and the key.
object_head ==
    /\ stack # <<>> /\ Top.k = "object" /\ Top.phase = "head"
    /\ LET txt == SelfText
           idx == _skip_whitespace(txt, cursor)
       IN  IF cursor >= Len(txt) THEN Return(JObj(Top.acc), cursor)
           ELSE IF idx >= Len(txt) THEN Fail("IndexError", idx)
           ELSE IF At(txt, idx) # "\"" THEN Fail("ValueError", idx)
           ELSE Call([Top EXCEPT !.phase = "key", !.head = cursor],
                     Frame("string", "loop", <<>>), idx + 1)
    /\ UNCHANGED <<text, sortVars, pipeVars, listVars, streamVars, loadVars>>

\* _parse_object, lines 64-70: the colon and the value.
object_key ==
    /\ stack # <<>> /\ Top.k = "object" /\ Top.phase = "key" /\ ret.has
    /\ LET txt == SelfText
           idx == _skip_whitespace(txt, cursor)
       IN  IF idx >= Len(txt) \/ At(txt, idx) # ":" THEN Fail("ValueError", idx)
           ELSE Call([Top EXCEPT !.phase = "value", !.key = ret.val.s],
                     Frame("value", "call", <<>>), idx + 1)
    /\ UNCHANGED <<text, sortVars, pipeVars, listVars, streamVars, loadVars>>

\* _parse_object, lines 71-84: the member and the separator.
object_value ==
    /\ stack # <<>> /\ Top.k = "object" /\ Top.phase = "value" /\ ret.has
    /\ LET txt == SelfText
           obj == [k \in DOMAIN Top.acc \cup {Top.key} |->
                      IF k = Top.key THEN ret.val ELSE Top.acc[k]]
           idx == _skip_whitespace(txt, cursor)
           again == [Top EXCEPT !.phase = "head", !.acc = obj]
       IN  IF idx >= Len(txt) THEN Return(JObj(obj), idx)
           ELSE IF At(txt, idx) = "," THEN Continue(again, idx + 1)
           ELSE IF At(txt, idx) = "}" THEN Return(JObj(obj), idx + 1)
           ELSE Continue(again, idx)
    /\ UNCHANGED <<text, sortVars, pipeVars, listVars, streamVars, loadVars>>

\* _parse_array, lines 96-97: the loop test and the element.
array_head ==
    /\ stack # <<>> /\ Top.k = "array" /\ Top.phase = "head"
    /\ IF cursor >= Len(SelfText) THEN Return(JArr(Top.acc), cursor)
       ELSE Call([Top EXCEPT !.phase = "value", !.head = cursor],
                 Frame("value", "call", <<>>), cursor)
    /\ UNCHANGED <<text, sortVars, pipeVars, listVars, streamVars, loadVars>>

\* _parse_array, lines 98-111: the element and the separator.
array_value ==
    /\ stack # <<>> /\ Top.k = "array" /\ Top.phase = "value" /\ ret.has
    /\ LET txt == SelfText
           arr == Append(Top.acc, ret.val)
           idx == _skip_whitespace(txt, cursor)
           again == [Top EXCEPT !.phase = "head", !.acc = arr]
       IN  IF idx >= Len(txt) THEN Return(JArr(arr), idx)
           ELSE IF At(txt, idx) = "," THEN Continue(again, idx + 1)
           ELSE IF At(txt, idx) = "]" THEN Return(JArr(arr), idx + 1)
           ELSE Continue(again, idx)
    /\ UNCHANGED <<text, sortVars, pipeVars, listVars, streamVars, loadVars>>

\* The index after an escape character at idx that skips the escaped
\* character without looking for the end of the text.
EscapeNoEndTest(txt, idx) == idx + 2
\* _parse_string, lines 126-129 and 144: the index after the escape character
\* at idx and the character it escapes, if there is one.
Escape(txt, idx) == IF idx + 1 < Len(txt) THEN idx + 2 ELSE idx + 1

\* _parse_string, lines 117-147: one iteration of the loop, or its end.
string_step ==
    /\ stack # <<>> /\ Top.k = "string"
    /\ LET txt == SelfText
           char == At(txt, cursor)
           now == [Top EXCEPT !.head = cursor]
       IN  IF cursor >= Len(txt) THEN Fail("ValueError", cursor)
           ELSE IF char = "\"" THEN Return(JStr(Top.acc), cursor + 1)
           ELSE IF char = "\\"
           THEN Continue([now EXCEPT !.acc =
                              IF cursor + 1 < Len(txt)
                              THEN Append(Top.acc, Unescape(At(txt, cursor + 1)))
                              ELSE Top.acc],
                         Escape(txt, cursor))
           ELSE Continue([now EXCEPT !.acc = Append(Top.acc, char)], cursor + 1)
    /\ UNCHANGED <<text, sortVars, pipeVars, listVars, streamVars, loadVars>>

\* _parse_number, lines 155-174: one iteration of a digit loop, or the code
\* between two loops, or the conversion of text[start:index].
number_step ==
    /\ stack # <<>> /\ Top.k = "number"
    /\ LET txt == SelfText
           digit == cursor < Len(txt) /\ IsDigit(At(txt, cursor))
           dot == Top.phase = "int" /\ cursor < Len(txt) /\ At(txt, cursor) = "."
           exp == cursor < Len(txt) /\ At(txt, cursor) \in {"e", "E"}
           signed == cursor + 1 < Len(txt) /\ At(txt, cursor + 1) \in {"+", "-"}
           num == _parse_number(txt, Top.start)
       IN  IF digit THEN Continue([Top EXCEPT !.head = cursor], cursor + 1)
           ELSE IF dot THEN Continue([Top EXCEPT !.phase = "frac", !.head = -1], cursor + 1)
           ELSE IF Top.phase # "exp" /\ exp
           THEN Continue([Top EXCEPT !.phase = "exp", !.head = -1],
                         IF signed THEN cursor + 2 ELSE cursor + 1)
           ELSE IF num.err # "" THEN Fail(num.err, cursor)
           ELSE Return(num.val, cursor)
    /\ UNCHANGED <<text, sortVars, pipeVars, listVars, streamVars, loadVars>>

\* parse_file returns the value of its _parse_value call.
parse_file_return ==
    /\ stack = <<>> /\ ret.has /\ parsed.t = "idle"
    /\ parsed' = [t |-> "value", val |-> ret.val, index |-> cursor]
    /\ UNCHANGED <<cursor, stack, ret>>
    /\ UNCHANGED <<text, sortVars, pipeVars, listVars, streamVars, loadVars>>

\* The inputs: every text of up to MaxStepText characters, the documents, and
\* texts with numbers and escapes.
StepAlphabet == {"{", "[", "]", "\"", ":", ",", "1", "\\", " "}
StepDocuments ==
    Documents \cup
    {<<"-", "1", "1", ".", "1", "1", "e", "-", "1", "1">>,
     <<"[", "1", ".", ",", "-", "1", "E", "+", "1", " ", "1", "]">>,
     <<"-", ".", "e">>,
     <<"\"", "a", "\\", "n", "\\", "\"", "a", "\"">>,
     <<"{", "\"", "a", "\"", ":", "[", "{", "}", ",", "[", "\"", "a", "\"", "]", "]", ",",
       "\"", "b", "\"", ":", "1", "}">>}
InitSteps ==
    /\ NoSort /\ NoPipe /\ NoList /\ NoStream /\ NoLoad
    /\ text \in Seqs(StepAlphabet, MaxStepText) \cup StepDocuments
    /\ parsed = [t |-> "idle"]
    /\ cursor = 0 /\ stack = <<Frame("value", "call", <<>>)>> /\ ret = NoReturn

NextSteps ==
    \/ step_parse_value
    \/ object_head
    \/ object_key
    \/ object_value
    \/ array_head
    \/ array_value
    \/ string_step
    \/ number_step
    \/ parse_file_return

\* parse_file is one synchronous call: it runs until it returns or raises.
SpecSteps == InitSteps /\ [][NextSteps]_vars /\ WF_vars(NextSteps)

-----------------------------------------------------------------------------
(* Properties.                                                              *)

\* The rows of a result: a Table's data in the chained engine, the list itself
\* in the other two.
Rows(x) == IF engine = "chain" THEN x.data ELSE x

\* The distinct elements of a sequence in first-encounter order.
RECURSIVE FirstSeen(_)
FirstSeen(s) ==
    IF s = <<>> THEN <<>>
    ELSE LET r == FirstSeen(SubSeq(s, 1, Len(s) - 1))
             x == s[Len(s)]
         IN  IF \E i \in 1..Len(r) : r[i] = x THEN r ELSE Append(r, x)

\* The value of a document with its nested objects.
RECURSIVE DeepVal(_, _)
DeepVal(objs, val) ==
    IF val.t # "ref" THEN val
    ELSE IF objs[val.id].kind = "dict"
    THEN [k \in DOMAIN objs[val.id].f |-> DeepVal(objs, objs[val.id].f[k])]
    ELSE [i \in 1..Len(objs[val.id].items) |-> DeepVal(objs, objs[val.id].items[i])]

\* The executor is one of the two tabular engines.
Tabular == engine \in {"sql", "chain"}

\* The streaming call has ended, by a return or by an exception.
Ended == pc \in {"done", "raised"}

\* C1: QueryExecutor.execute on a streaming source, with a pipeline whose
\* order-by is ascending and whose in-memory execution succeeds, returns a
\* result, and the result is the row sequence of the in-memory execution.
C1_ExternalSortEqualsInMemory ==
    (/\ Ended /\ entry = "execute"
     /\ operations[OrderIdx(operations)].direction = "ASC"
     /\ _execute_normal(file, <<>>, operations).err = "")
    => (/\ outcome = "result"
        /\ results = _execute_normal(file, <<>>, operations).rows)

\* C2: after a limit with value n >= 0 on a result of m rows, in each of the
\* three engines, the result is the first min(n, m) rows in their order.
C2_LimitFirstRows ==
    (last_op.type = "limit" /\ last_op.value >= 0)
    => (/\ raised = ""
        /\ Rows(current) = [i \in 1..Min(last_op.value, Len(Rows(prev))) |-> Rows(prev)[i]])

\* A limit cut a two-document intermediate result of the document pipeline,
\* itself the result of an earlier operator, down to one document.
C2_Witness ==
    /\ engine = "nosql" /\ nops = 2 /\ last_op.type = "limit" /\ last_op.value = 1
    /\ Len(prev) = 2 /\ Len(current) = 1

\* The number of pairs (left row, right row) with equal keys, and the number
\* of left rows without a partner.
RECURSIVE SumSeq(_)
SumSeq(ns) == IF ns = <<>> THEN 0 ELSE ns[1] + SumSeq(Tail(ns))
Matches(lkeys, rkeys) ==
    SumSeq([i \in 1..Len(lkeys) |-> Cardinality({j \in 1..Len(rkeys) : rkeys[j] = lkeys[i]})])
Unmatched(lkeys, rkeys) ==
    Cardinality({i \in 1..Len(lkeys) : \A j \in 1..Len(rkeys) : rkeys[j] # lkeys[i]})
LeftKeys ==
    IF engine = "chain" THEN [i \in 1..Len(prev.data) |-> Cell(prev.data[i], 1)]
    ELSE [i \in 1..Len(prev) |-> Get(prev[i], "g")]
RightKeys ==
    IF engine = "chain" THEN [j \in 1..Len(joined.data) |-> Cell(joined.data[j], 1)]
    ELSE [j \in 1..Len(joined) |-> Get(joined[j], "g")]
KeysPresent ==
    /\ last_op.main_key = "g"
    /\ last_op.join_key = IF engine = "chain" THEN "k" ELSE "g"

\* C3: in the tabular engines, an inner join on keys present in both tables returns as many rows as
\* there are pairs of a left and a right row with equal keys; a left join
\* returns that many plus one for each left row without a partner.
C3_JoinRowCount ==
    (Tabular /\ last_op.type = "join" /\ KeysPresent)
    => (/\ last_op.join_type \in {"INNER", "inner"}
            => raised = "" /\ Len(Rows(current)) = Matches(LeftKeys, RightKeys)
        /\ last_op.join_type \in {"LEFT", "left"}
            => /\ raised = ""
               /\ Len(Rows(current)) = Matches(LeftKeys, RightKeys)
                                        + Unmatched(LeftKeys, RightKeys))

\* The value a filter compares, and whether the row satisfies the condition:
\* the operands can be compared and the comparison is true.
Operand(row) ==
    IF engine = "chain" THEN Cell(row, IndexOf(prev.headers, last_op.column))
    ELSE Coerce(Get(row, last_op.column))
Threshold == IF engine = "chain" THEN last_op.value ELSE Coerce(last_op.value)
Satisfies(row) ==
    /\ engine = "chain" => InList(last_op.column, prev.headers)
    /\ last_op.operator \in Ordering => Comparable(Operand(row), Threshold)
    /\ PyCompare(last_op.operator, Operand(row), Threshold)

\* C4: a tabular filter returns the rows of its input that satisfy the condition,
\* each once and in their original order.
C4_FilterExactRows ==
    (Tabular /\ last_op.type = "filter")
    => (/\ raised = ""
        /\ Rows(current) = SelectSeq(Rows(prev), Satisfies))

\* The grouping-key values of the input in first-encounter order, the sum of
\* the numeric aggregate values of a key's rows, and whether it has any.
GroupValues ==
    FirstSeen(IF engine = "chain" THEN [i \in 1..Len(prev.data) |-> Cell(prev.data[i], 1)]
              ELSE [i \in 1..Len(prev) |-> Get(prev[i], "g")])
MemberValues(key) ==
    IF engine = "chain"
    THEN LET m == SelectSeq(prev.data, LAMBDA r : Cell(r, 1) = key)
         IN  [i \in 1..Len(m) |-> Cell(m[i], 2)]
    ELSE LET m == SelectSeq(prev, LAMBDA r : Get(r, "g") = key)
         IN  [i \in 1..Len(m) |-> Get(m[i], "v")]
NumericSum(values) ==
    LET usable == SelectSeq(values, CanFloat)
    IN  SumSeq([i \in 1..Len(usable) |-> PyFloat(usable[i]).n])
HasNumeric(values) == \E i \in 1..Len(values) : CanFloat(values[i])
SumOf(row) == IF engine = "chain" THEN row.agg ELSE Get(row, "sum")

\* C5: a tabular group-by with SUM returns one row per distinct grouping-key value, in
\* first-encounter order, each with the sum of its member rows.
C5_GroupBySum ==
    (/\ Tabular /\ last_op.type = "groupby" /\ last_op.column = "g"
     /\ last_op.agg_func \in {"SUM", "sum"})
    => (/\ raised = ""
        /\ Len(Rows(current)) = Len(GroupValues)
        /\ \A g \in 1..Len(GroupValues) :
              g <= Len(Rows(current)) /\ HasNumeric(MemberValues(GroupValues[g]))
              => SumOf(Rows(current)[g]) = Num(NumericSum(MemberValues(GroupValues[g]))))

\* A row an ordering filter must keep: its value and the threshold are
\* numbers after coercion and the comparison of the numbers is true.
NumericMatch(row) ==
    LET val == IF engine = "chain" THEN Cell(row, IndexOf(prev.headers, last_op.column))
               ELSE Get(row, last_op.column)
    IN  /\ CanFloat(val) /\ CanFloat(last_op.value)
        /\ PyCompare(last_op.operator, PyFloat(val), PyFloat(last_op.value))

\* C6: a tabular filter with >, <, >= or <= never ends in an error; it drops
\* the rows whose value is null or not a number and evaluates all the others.
C6_OrderingFilterNeverRaises ==
    (/\ Tabular /\ last_op.type = "filter" /\ last_op.operator \in Ordering
     /\ engine = "chain" => InList(last_op.column, prev.headers))
    => (/\ raised = ""
        /\ Rows(current) = SelectSeq(Rows(prev), NumericMatch))

\* The header of the table an operator reads, and whether the operator names
\* a column that is absent from it.
Header == IF engine = "chain" THEN prev.headers ELSE <<"v", "g">>
NamesAbsentColumn ==
    \/ /\ last_op.type = "select"
       /\ \E i \in 1..Len(last_op.columns) : ~InList(last_op.columns[i], Header)
    \/ /\ last_op.type = "join"
       /\ \/ ~InList(last_op.main_key, Header)
          \/ /\ engine = "chain" /\ ~InList(last_op.join_key, joined.headers)
          \/ /\ engine = "sql" /\ joined # <<>> /\ last_op.join_key \notin DOMAIN joined[1]

\* C7: a select of an absent column, or a join on an absent key, ends in an
\* error and yields no rows, in the chained engine and the descriptor
\* pipeline.
C7_AbsentColumnIsAnError ==
    (Tabular /\ NamesAbsentColumn)
    => (raised # "" /\ (engine = "sql" => current = <<>>))

\* C8: when the external sort-merge has returned a result, no spill file of
\* the call is left.
C8_SpillFilesDeletedOnResult ==
    outcome = "result" => disk = {}

\* The merge stopped at the limit with records of two spill files unread, and
\* the call returned.
C8_Witness ==
    /\ pc = "done" /\ outcome = "result" /\ Len(temp_files) >= 2
    /\ PostLimit(operations) # -1 /\ heap # {} /\ disk = {}

\* C9: when the external sort-merge has raised after spilling a batch, no
\* spill file of the call is left.
C9_SpillFilesDeletedOnError ==
    (pc = "raised" /\ temp_files # <<>>) => disk = {}

\* C10: no operator of the document pipeline changes the value of a document
\* of the loaded collection, nested objects included.
C10_SourceDocumentsUnchanged ==
    [][engine = "nosql"
       => \A i \in 1..Len(source) :
             DeepVal(objects', source[i]) = DeepVal(objects, source[i])]_vars

\* The add methods, and the list after deleting the element at 0-based index
\* i and nothing else.
AddCalls == {"add_filter", "add_select", "add_join", "add_projection", "add_groupby",
             "add_limit"}
Without(list, i) == SubSeq(list, 1, i) \o SubSeq(list, i + 2, Len(list))
RemoveAndClearAsStated ==
    /\ call.name = "remove_operation"
        => oplist = IF 0 <= call.arg /\ call.arg < Len(oplist_prev)
                    THEN Without(oplist_prev, call.arg) ELSE oplist_prev
    /\ call.name = "clear_operations" => oplist = <<>>
EmptyGuarded ==
    \/ api = "SQLEngine" /\ call.name = "add_select" /\ call.arg.columns = <<>>
    \/ api = "components.NoSQLEngine" /\ call.name = "add_projection"
       /\ call.arg.fields = <<>>

\* C11 as stated: every add call appends its one descriptor at the end,
\* remove_operation(i) deletes the element at index i only when 0 <= i <
\* length, and clear_operations empties the list.
C11_OperationListRules ==
    /\ call.name \in AddCalls => oplist = Append(oplist_prev, call.arg)
    /\ RemoveAndClearAsStated

\* C11 amended: as stated, except that SQLEngine.add_select and the older
\* NoSQLEngine.add_projection leave the list unchanged when the column list
\* is empty.
C11_OperationListRulesAmended ==
    /\ call.name \in AddCalls
        => oplist = IF EmptyGuarded THEN oplist_prev ELSE Append(oplist_prev, call.arg)
    /\ RemoveAndClearAsStated

\* remove_operation(1) deleted the middle one of three descriptors.
C11_Witness ==
    /\ call.name = "remove_operation" /\ call.arg = 1 /\ Len(oplist_prev) = 3
    /\ oplist = <<oplist_prev[1], oplist_prev[3]>>
    /\ oplist_prev[1] # oplist_prev[3] /\ oplist_prev[2] # oplist_prev[3]

\* Shapes of malformed documents, on the stripped text.  Quotes(txt, i) is the
\* number of quote characters among the first i; a position is outside every
\* string when that number is even and the text has no backslash.
Stripped == Strip(text)
Quotes(txt, i) == Cardinality({j \in 1..i : txt[j] = "\""})
Outside(txt, i) == Quotes(txt, i) % 2 = 0 /\ \A j \in 1..Len(txt) : txt[j] # "\\"
FirstAfter(txt, i) == _skip_whitespace(txt, i) + 1
UnrecognizedStart == Stripped # <<>> /\ Stripped[1] = "x"
KeyNotQuoted ==
    /\ Stripped # <<>> /\ Stripped[1] = "{"
    /\ FirstAfter(Stripped, 1) <= Len(Stripped)
    /\ Stripped[FirstAfter(Stripped, 1)] \notin {"\"", "}"}
MissingColon ==
    /\ Len(Stripped) >= 3 /\ Stripped[1] = "{" /\ Stripped[2] = "\""
    /\ \E j \in 3..Len(Stripped) :
          /\ Stripped[j] = "\"" /\ Quotes(Stripped, j) = 2 /\ Outside(Stripped, j)
          /\ \/ FirstAfter(Stripped, j) > Len(Stripped)
             \/ Stripped[FirstAfter(Stripped, j)] # ":"
MissingComma ==
    /\ Stripped # <<>> /\ Stripped[1] \in {"[", "{"}
    /\ \E i \in 1..Len(Stripped) :
          /\ Outside(Stripped, i) /\ Stripped[i] \in {"1", "]", "}"}
          /\ \/ i + 1 <= Len(Stripped) /\ Stripped[i + 1] \in {"[", "{"}
             \/ /\ i + 2 <= Len(Stripped) /\ Stripped[i + 1] = " "
                /\ Stripped[i + 2] \in {"1", "\"", "[", "{"}
MissingClose ==
    /\ Stripped # <<>>
    /\ \/ Stripped[1] = "[" /\ \A j \in 1..Len(Stripped) : Stripped[j] # "]"
       \/ Stripped[1] = "{" /\ \A j \in 1..Len(Stripped) : Stripped[j] # "}"
UnterminatedString ==
    /\ Stripped # <<>> /\ Stripped[1] = "\"" /\ Quotes(Stripped, Len(Stripped)) = 1

\* C12: a document that starts with an unrecognized character, has an
\* unquoted key, lacks the `:` after a key, lacks a `,` between two members,
\* lacks its closing bracket or has an unterminated string is not accepted:
\* parse_file ends in an error.
C12_MalformedDocumentsFail ==
    (/\ parsed.t # "idle"
     /\ \/ UnrecognizedStart \/ KeyNotQuoted \/ MissingColon
        \/ MissingComma \/ MissingClose \/ UnterminatedString)
    => parsed.t = "error"

\* The stringified value of a field of a document, and the secondary
\* documents that match a primary document.
KeyText(doc, field) == DocStr(objects, _get_nested_value(objects, doc, field))
MatchesOf(doc) ==
    SelectSeq(joined, LAMBDA d : KeyText(d, last_op.join_field)
                                 = KeyText(doc, last_op.main_field))

\* C13: after a document join the result has one document per primary
\* document, in order; each is the primary document plus a joined_data array
\* holding the matching secondary documents in secondary order, empty without
\* a match and with an empty secondary collection.
C13_LookupAttachesMatches ==
    (engine = "nosql" /\ last_op.type = "join")
    => (/\ raised = "" /\ Len(current) = Len(prev)
        /\ \A i \in 1..Len(prev) :
              LET new_doc == objects[current[i].id].f
                  doc == objects[prev[i].id].f
              IN  /\ "joined_data" \in DOMAIN new_doc
                  /\ new_doc["joined_data"].t = "ref"
                  /\ objects[new_doc["joined_data"].id] = List(MatchesOf(prev[i]))
                  /\ \A k \in DOMAIN doc \ {"joined_data"} :
                        k \in DOMAIN new_doc /\ new_doc[k] = doc[k])

\* The pieces of a line between its delimiters, each trimmed.
RECURSIVE SplitTrim(_, _)
SplitTrim(line, piece) ==
    IF line = <<>> THEN <<Strip(piece)>>
    ELSE IF Head(line) = delimiter
         THEN <<Strip(piece)>> \o SplitTrim(Tail(line), <<>>)
         ELSE SplitTrim(Tail(line), Append(piece, Head(line)))

LineParsed == parsed.t = "fields"

(* C14: for every line that contains no quote character, either line       *)
(* parser returns the same field list as splitting the line on the         *)
(* delimiter and trimming the whitespace around each piece.                *)
C14_UnquotedLineIsNaiveSplit ==
    (LineParsed /\ ~Has(text, quote_char))
        => parsed.fields = SplitTrim(text, <<>>)

(* C14, amended: the same for every line that contains no quote character  *)
(* and, for the parser that has an escape character (parse_line of         *)
(* sql_component), no escape character either.                             *)
C14_UnquotedUnescapedLineIsNaiveSplit ==
    (/\ LineParsed
     /\ ~Has(text, quote_char)
     /\ parsed.by = "parse_line" => ~Has(text, escape_char))
        => parsed.fields = SplitTrim(text, <<>>)

C14_Witness ==
    /\ LineParsed /\ parsed.by = "parse_line"
    /\ ~Has(text, quote_char) /\ ~Has(text, escape_char)
    /\ Has(text, delimiter) /\ Len(text) = MaxLine /\ text[1] = " "
    /\ Len(parsed.fields) = 2 /\ parsed.fields[1] # <<>> /\ parsed.fields[2] # <<>>

\* The positions of a character in a line, and the quotes before a position.
Positions(line, char) == {k \in 1..Len(line) : line[k] = char}
QuotesBefore(line, k) == Cardinality({q \in Positions(line, quote_char) : q < k})

\* A quote opens a quoted part when an even number of quotes precede it; a
\* delimiter lies in a quoted part when an odd number of quotes precede it.
InQuotedPart(line, k) == QuotesBefore(line, k) % 2 = 1
SplittingDelimiters(line) == {k \in Positions(line, delimiter) : ~InQuotedPart(line, k)}

\* The line a parser takes its quoting from: the escape character of
\* parse_line makes the next character literal, so such lines are set aside.
NoEscapes == parsed.by = "parse_line" => ~Has(text, escape_char)

\* The text after the last delimiter that precedes the only quote of a line,
\* without the quote.
RECURSIVE DropChar(_, _)
DropChar(line, char) ==
    IF line = <<>> THEN <<>>
    ELSE IF Head(line) = char THEN DropChar(Tail(line), char)
         ELSE <<Head(line)>> \o DropChar(Tail(line), char)

OpenTail(line) ==
    LET q == CHOOSE k \in Positions(line, quote_char) : TRUE
        before == {k \in Positions(line, delimiter) : k < q}
        start == IF before = {} THEN 1
                 ELSE 1 + CHOOSE k \in before : \A j \in before : j <= k
    IN  DropChar(SubSeq(line, start, Len(line)), quote_char)

Token == Strip(text)
Unsigned(v) == IF v # <<>> /\ v[1] \in {"+", "-"} THEN Tail(v) ELSE v
Mantissa(u) ==
    \/ u # <<>> /\ AllDigits(u)
    \/ \E k \in 1..Len(u) :
        /\ u[k] = "." /\ Len(u) > 1
        /\ AllDigits(SubSeq(u, 1, k - 1)) /\ AllDigits(SubSeq(u, k + 1, Len(u)))
Exponent(x) == Unsigned(x) # <<>> /\ AllDigits(Unsigned(x))
NullToken == Lower(Token) \in NullWords
BooleanToken == Lower(Token) \in TrueWords \cup FalseWords
IntegerToken == Unsigned(Token) # <<>> /\ AllDigits(Unsigned(Token))
FloatToken ==
    LET u == Unsigned(Lower(Token))
    IN  \/ Has(u, ".") /\ Mantissa(u)
        \/ \E k \in 1..Len(u) :
            /\ u[k] = "e"
            /\ Mantissa(SubSeq(u, 1, k - 1)) /\ Exponent(SubSeq(u, k + 1, Len(u)))
DateToken ==
    LET parts == DateParts(Token, <<>>)
    IN  /\ Len(parts) = 3
        /\ \A p \in 1..3 : PyInt(FirstWord(parts[p])).ok
        /\ \E p \in 1..3 : PyInt(FirstWord(parts[p])).n > 0
FirstMatch ==
    IF NullToken THEN "null"
    ELSE IF BooleanToken THEN "boolean"
    ELSE IF IntegerToken THEN "integer"
    ELSE IF FloatToken THEN "float"
    ELSE IF DateToken THEN "date"
    ELSE "string"

TypeInferred == parsed.t \in {"typed", "error"}

(* C16: infer_type applies its checks in the order null, boolean, integer,  *)
(* float, date, string and returns the first that matches: "1" and "0" are *)
(* boolean, a digit string without ".", "e" or "E" is integer, "123.0" and *)
(* "123.45" are float, and a token matching no earlier check is the string *)
(* itself.                                                                 *)
C16_FirstMatchingType ==
    TypeInferred =>
        /\ parsed.t = "typed"
        /\ parsed.type = FirstMatch
        /\ Token \in {<<"1">>, <<"0">>} => parsed.type = "boolean"
        /\ (Token # <<>> /\ AllDigits(Token) /\ Token \notin {<<"1">>, <<"0">>})
            => parsed.type = "integer" /\ parsed.val.n = DecVal(Token)
        /\ Token \in {<<"1", "2", "3", ".", "0">>, <<"1", "2", "3", ".", "4", "5">>}
            => parsed.type = "float"
        /\ FirstMatch = "string" => parsed.val = [k |-> "str", s |-> Token]

\* The filter of a tabular pipeline has been applied a second time.
FilteredTwice == Tabular /\ nops = 2 /\ last_op.type = "filter"

(* C17: applying the same filter predicate twice in succession to a table  *)
(* yields the same rows, in the same order, as applying it once: the       *)
(* second application returns its input unchanged and raises nothing.      *)
C17_FilterIdempotent ==
    FilteredTwice => (raised = "" /\ current = prev)

\* The first application dropped a row and kept another.
C17_Witness ==
    /\ FilteredTwice /\ engine = "chain"
    /\ Len(Rows(source)) = MaxRows /\ Len(Rows(current)) = 2

\* A select of columns that are all in the header of its input.
SelectedExisting ==
    /\ Tabular /\ last_op.type = "select"
    /\ \A c \in 1..Len(last_op.columns) : InList(last_op.columns[c], Header)

\* The value of a column in a row of the input table: null past the row's end.
ValueIn(row, column) ==
    LET at == CHOOSE k \in 1..Len(prev.headers) : prev.headers[k] = column
    IN  IF at <= Len(row) THEN row[at] ELSE None

DeclaredBefore(ops, first, later) ==
    \E i, j \in 1..Len(ops) : i < j /\ ops[i].type \in first /\ ops[j].type \in later

\* The streaming call without order-by routing has ended.
ChunkedEnded == Ended /\ entry = "execute" /\ temp_files = <<>> /\ heap = {}

InMemory == _execute_normal(file, <<>>, operations)

(* C19: on a streaming source, for every pipeline without join or order-by *)
(* in which a limit is declared before a filter or a group-by, the result  *)
(* is the result of in-memory execution of the same operator sequence over *)
(* the whole source, for every batch size.                                 *)
C19_MidPipelineLimit ==
    (/\ ChunkedEnded
     /\ ~HasType(operations, {"join", "orderby"})
     /\ DeclaredBefore(operations, {"limit"}, {"filter", "groupby"})
     /\ InMemory.err = "")
    => (outcome = "result" /\ results = InMemory.rows)

(* C20: on a streaming source, a having or an order-by declared after a    *)
(* group-by is applied to the grouped result: the result of the pipeline   *)
(* is the result of its in-memory execution over all source rows.          *)
C20_HavingAndOrderAfterGroupBy ==
    (/\ ChunkedEnded
     /\ DeclaredBefore(operations, {"groupby"}, {"having", "orderby"})
     /\ InMemory.err = "")
    => (outcome = "result" /\ results = InMemory.rows)

\* The rows that survive the operators declared before the order-by, and
\* their fully sorted sequence.
Survivors == _execute_normal(file, <<>>, SubSeq(operations, 1, OrderIdx(operations) - 1))
FullySorted == _apply_orderby(Survivors.rows, operations[OrderIdx(operations)])

\* A call of the external sort-merge itself, with an ascending order-by
\* followed by a limit, on rows that can be sorted, has ended.
SortMergeWithLimitEnded ==
    /\ Ended /\ entry = "direct"
    /\ operations[OrderIdx(operations)].direction = "ASC"
    /\ PostLimit(operations) >= 0
    /\ Survivors.err = "" /\ FullySorted.err = ""

(* C21: for a streaming ascending order-by followed by Limit n, the result *)
(* of the external sort-merge is exactly the first min(n, m) rows of the   *)
(* fully sorted sequence of the m rows that survive the operators declared *)
(* before the order-by, for every n >= 0, n = 0 included.                  *)
C21_SortMergeLimit ==
    SortMergeWithLimitEnded =>
        /\ outcome = "result"
        /\ results = SubSeq(FullySorted.rows, 1,
                            Min(PostLimit(operations), Len(FullySorted.rows)))

\* An inner or left join on keys that both tables have has returned.
InnerOrLeftJoined ==
    /\ Tabular /\ last_op.type = "join" /\ KeysPresent /\ raised = ""
    /\ last_op.join_type \in {"INNER", "inner", "LEFT", "left"}
OuterJoin == last_op.join_type \in {"LEFT", "left"}

\* Chained engine: the right columns of the result header, and a result row
\* made of left row l and right row j (0: no partner, nulls).
RightColumns == SelectSeq(joined.headers, LAMBDA h : h # last_op.join_key)
TableRowFrom(row, l, j) ==
    LET left_row == prev.data[l]
        key == Cell(left_row, IndexOf(prev.headers, last_op.main_key))
        RightKey(k) == Cell(joined.data[k], IndexOf(joined.headers, last_op.join_key))
    IN  /\ \A c \in 1..Len(prev.headers) : row[c] = Cell(left_row, c)
        /\ IF j = 0
           THEN /\ OuterJoin
                /\ \A k \in 1..Len(joined.data) : RightKey(k) # key
                /\ \A c \in 1..Len(RightColumns) : row[Len(prev.headers) + c] = None
           ELSE /\ RightKey(j) = key
                /\ \A c \in 1..Len(RightColumns) :
                     row[Len(prev.headers) + c]
                        = Cell(joined.data[j], IndexOf(joined.headers, RightColumns[c]))

\* Descriptor pipeline: the columns of the left rows and of the right rows
\* without the join key, and a result row made of left row l and right row j.
LeftNames == UNION {DOMAIN prev[l] : l \in 1..Len(prev)}
RightNames == UNION {DOMAIN joined[j] : j \in 1..Len(joined)} \ {last_op.join_key}
DictRowFrom(row, l, j) ==
    /\ \A c \in LeftNames : Get(row, c) = Get(prev[l], c)
    /\ IF j = 0
       THEN /\ OuterJoin
            /\ \A k \in 1..Len(joined) :
                 Get(joined[k], last_op.join_key) # Get(prev[l], last_op.main_key)
            /\ \A c \in RightNames \ LeftNames : Get(row, c) = None
       ELSE /\ Get(joined[j], last_op.join_key) = Get(prev[l], last_op.main_key)
            /\ \A c \in RightNames \ LeftNames : Get(row, c) = Get(joined[j], c)

(* C22: in every inner-join and left-join result, each row has exactly one *)
(* value per column of the result header (the left columns followed by the *)
(* right columns without the right join key), and the value under each     *)
(* column is that column's value in the contributing left or right row, or *)
(* null for the right columns of an unmatched left row; no left column     *)
(* value is replaced by a right value.                                     *)
C22_JoinRowsMatchHeader ==
    InnerOrLeftJoined =>
        /\ engine = "chain" =>
            /\ current.headers = prev.headers \o RightColumns
            /\ \A r \in 1..Len(current.data) :
                /\ Len(current.data[r]) = Len(current.headers)
                /\ \E l \in 1..Len(prev.data), j \in 0..Len(joined.data) :
                     TableRowFrom(current.data[r], l, j)
        /\ engine = "sql" =>
            \A r \in 1..Len(current) :
                /\ DOMAIN current[r] \subseteq LeftNames \cup RightNames
                /\ \E l \in 1..Len(prev), j \in 0..Len(joined) :
                     DictRowFrom(current[r], l, j)

\* A tabular group-by with COUNT on columns of the input has returned.
CountedGroups ==
    /\ Tabular /\ last_op.type = "groupby" /\ last_op.agg_func \in {"COUNT", "count"}
    /\ InList(last_op.column, Header) /\ InList(last_op.agg_column, Header)
    /\ raised = ""

\* The values of the counted column in the rows of the group of a result row.
CountedValues(result_row) ==
    IF engine = "chain"
    THEN LET m == SelectSeq(prev.data,
                    LAMBDA r : Cell(r, IndexOf(prev.headers, last_op.column))
                               = result_row.group_key[1])
         IN  [i \in 1..Len(m) |-> Cell(m[i], IndexOf(prev.headers, last_op.agg_column))]
    ELSE LET m == SelectSeq(prev,
                    LAMBDA r : PyStr(Get(r, last_op.column)) = result_row[last_op.column])
         IN  [i \in 1..Len(m) |-> Get(m[i], last_op.agg_column)]
NonNull(values) == Cardinality({i \in 1..Len(values) : values[i] # None})
CountOf(result_row) == IF engine = "chain" THEN result_row.agg ELSE Get(result_row, "count")

(* C23: the COUNT aggregate of a named column over a group equals the      *)
(* number of the group's rows whose value in that column is non-null, in   *)
(* Aggregation.count and in the descriptor pipeline's group-by with COUNT. *)
C23_CountNonNull ==
    CountedGroups =>
        \A g \in 1..Len(Rows(current)) :
            CountOf(Rows(current)[g]) = Num(NonNull(CountedValues(Rows(current)[g])))

\* A having has been applied to a grouped result of the descriptor pipeline.
HavingApplied == engine = "sql" /\ last_op.type = "having"

\* aggregate operator threshold, on numbers.
Holds(operator, a, b) ==
    CASE operator = ">"  -> a > b
      [] operator = "<"  -> a < b
      [] operator = ">=" -> a >= b
      [] operator = "<=" -> a <= b
      [] operator = "==" -> a = b
      [] operator = "!=" -> a # b

\* The grouped rows a having must keep: the aggregate field of the function
\* is present and satisfies the comparison with the threshold.
AggregateField == IF last_op.function = "COUNT" THEN "count" ELSE "sum"
HavingKeeps(row) ==
    /\ AggregateField \in DOMAIN row
    /\ Holds(last_op.operator, row[AggregateField].n, PyFloat(last_op.value).n)

(* C24: having keeps exactly the grouped rows whose aggregate field named  *)
(* by the function is present and satisfies aggregate operator threshold,  *)
(* for each of the operators >, <, >=, <=, == and != that Filter accepts;  *)
(* rows lacking the aggregate field are dropped without error.             *)
C24_HavingKeepsSatisfyingGroups ==
    HavingApplied => (raised = "" /\ current = SelectSeq(prev, HavingKeeps))

\* A call whose pipeline is one order-by, on a file whose sort column holds
\* both values that coerce to a number and values that do not, has ended: the
\* external sort-merge for an ascending order-by, the in-memory sort for a
\* descending one.
MixedColumn ==
    /\ \E i \in 1..Len(file) : CanFloat(Get(file[i], "v"))
    /\ \E i \in 1..Len(file) : ~CanFloat(Get(file[i], "v"))
MixedSortEnded == Ended /\ entry = "direct" /\ Len(operations) = 1 /\ MixedColumn

\* Every row of the file is in the result exactly once.
EachRowOnce ==
    /\ Len(results) = Len(file)
    /\ \A i \in 1..Len(file) : \E j \in 1..Len(results) : results[j] = file[i]

\* No two rows whose keys are both numbers, or both strings, are out of order.
InKeyOrder ==
    \A i, j \in 1..Len(results) :
        LET a == sort_key(results[i], "v")
            b == sort_key(results[j], "v")
        IN  (i < j /\ a.t = b.t) =>
                IF operations[1].direction = "DESC" THEN ~PyLess(a, b) ELSE ~PyLess(b, a)

(* C25: an order-by on a column whose values include both numerically      *)
(* coercible values and non-coercible or null values returns every input   *)
(* row exactly once, in an order consistent with one total comparator, and *)
(* never ends in an error, in the in-memory sort and in the per-batch sort *)
(* and merge of the external sort-merge.                                   *)
C25_MixedColumnOrderBy ==
    MixedSortEnded => (outcome = "result" /\ EachRowOnce /\ InKeyOrder)

\* An order-by of a tabular engine on a column of its input has been called.
OrderedBy == Tabular /\ last_op.type = "orderby"

\* The sort key of a row, and whether key a sorts strictly before key b in
\* the requested direction (keys of one kind only).
SortKeyOf(row) ==
    IF engine = "chain" THEN Cell(row, IndexOf(prev.headers, last_op.column))
    ELSE sort_key(row, last_op.column)
KeyBefore(a, b) ==
    /\ a.t = b.t /\ a.t # "null"
    /\ IF last_op.direction = "DESC" THEN PyLess(b, a) ELSE PyLess(a, b)

\* out is in taken in another order, no key before a key that sorts strictly
\* before it, and rows of equal keys in the order they have in in.
Perms(n) == {f \in [1..n -> 1..n] : \A i, j \in 1..n : i # j => f[i] # f[j]}
StableSortOf(out, in) ==
    /\ Len(out) = Len(in)
    /\ \E f \in Perms(Len(in)) :
          /\ \A j \in 1..Len(in) : out[j] = in[f[j]]
          /\ \A j, l \in 1..Len(in) :
                j < l =>
                    /\ ~KeyBefore(SortKeyOf(out[l]), SortKeyOf(out[j]))
                    /\ SortKeyOf(out[j]) = SortKeyOf(out[l]) => f[j] < f[l]

(* C26: order-by returns a permutation of its input rows ordered by the    *)
(* sort key in the requested direction, and rows with equal sort keys keep *)
(* their original relative order, for ascending and for descending         *)
(* direction.                                                              *)
C26_OrderByStablePermutation ==
    OrderedBy => (raised = "" /\ StableSortOf(Rows(current), Rows(prev)))

\* The generator has returned; the rows of a yielded batch.
Exhausted == gen.reader # "none" /\ gen.at = "done"
BatchRows(b) == IF gen.reader = "ChunkReader" THEN b.data ELSE b

\* The rows of the batches, concatenated in yield order.
RECURSIVE Concatenated(_)
Concatenated(bs) ==
    IF bs = <<>> THEN <<>>
    ELSE Concatenated(SubSeq(bs, 1, Len(bs) - 1)) \o BatchRows(bs[Len(bs)])

\* The non-empty data lines of the file in file order (every line behind the
\* header line, every line when the file has no header), and their rows.
NonBlank(line) == Strip(line) # <<>>
DataLines ==
    SelectSeq(IF gen.has_header THEN SubSeq(file_lines, 2, Len(file_lines)) ELSE file_lines,
              NonBlank)
RowOf(line) ==
    IF gen.reader = "ChunkReader" THEN parse_line(Strip(line))
    ELSE RowDict(_parse_line(IF file_lines = <<>> THEN <<>> ELSE file_lines[1]),
                 _parse_line(line))
DataRows == [i \in 1..Len(DataLines) |-> RowOf(DataLines[i])]

(* C27: for every file and batch size k >= 1, the batches yielded by the   *)
(* streaming parse, concatenated in yield order, are exactly the non-empty *)
(* data rows of the file in file order; every batch except the last has    *)
(* exactly k rows, the last has between 1 and k rows, and no empty batch   *)
(* is yielded.                                                             *)
C27_BatchesPartitionDataRows ==
    Exhausted =>
        /\ Concatenated(batches) = DataRows
        /\ \A i \in 1..Len(batches) :
              /\ i < Len(batches) => Len(BatchRows(batches[i])) = gen.chunk_size
              /\ Len(BatchRows(batches[i])) \in 1..gen.chunk_size

\* The number of rows in the first i batches.
RECURSIVE RowsUpTo(_)
RowsUpTo(i) == IF i = 0 THEN 0 ELSE RowsUpTo(i - 1) + Len(batches[i].data)

(* C28: in the metadata of the batches yielded by the streaming parse, the *)
(* is-last flag is true on the final yielded batch and false on every      *)
(* earlier one, including for a file whose row count is an exact multiple  *)
(* of the batch size; the batch index counts 0, 1, 2, ... in yield order   *)
(* and the running total is the number of rows yielded up to and including *)
(* that batch.                                                             *)
C28_BatchMetadata ==
    (Exhausted /\ gen.reader = "ChunkReader") =>
        \A i \in 1..Len(batches) :
            /\ batches[i].is_last = (i = Len(batches))
            /\ batches[i].chunk_number = i - 1
            /\ batches[i].total_rows_so_far = RowsUpTo(i)

\* A step that is a load_data call reporting failure, and the fields of the
\* engine object that name its source and its pipeline.
LoadFailedStep == load'.n = load.n + 1 /\ ~load'.ok
SourceFields(obj) ==
    IF obj.class = "SQLEngine"
    THEN <<obj.headers, obj.data, obj.chunked, obj.chunk_size, obj.file_path,
           obj.operations>>
    ELSE <<obj.data, obj.operations>>

(* C29: if load_data reports failure, the engine's previously loaded       *)
(* headers, data, streaming flag, batch size, source file path and         *)
(* operation list are all unchanged, so that a later execute() still runs  *)
(* the previous pipeline against the previously loaded source; for the     *)
(* in-memory load and for the streaming load.                              *)
C29_FailedLoadChangesNothing ==
    [][LoadFailedStep => SourceFields(self') = SourceFields(self)]_vars

\* The cursor is inside the text or at its end.
CursorInText == cursor <= Len(SelfText)

\* The innermost call is at the start of an iteration of its loop: the loop
\* of an object or an array, of a string, or a digit loop of a number.
AtLoopStart ==
    /\ stack # <<>>
    /\ \/ Top.k \in {"object", "array"} /\ Top.phase = "head"
       \/ Top.k \in {"string", "number"}
\* The cursor is behind the place where the previous iteration started.
LoopsAdvance == AtLoopStart => cursor > Top.head

(* C30: parsing any finite structured-text input terminates with a value   *)
(* or an error: the parser's cursor never decreases and never exceeds the  *)
(* text length, and every iteration of the loops in object, array, string  *)
(* and number parsing either advances the cursor or leaves the loop.       *)
C30_ParserTerminates ==
    /\ [](CursorInText /\ LoopsAdvance)
    /\ [][cursor' >= cursor]_vars
    /\ <>(parsed.t # "idle")

\* The parser has returned a nested document whose object loop and array
\* loop ran twice, with the cursor at the end of the text.
C30_Witness ==
    /\ parsed.t = "value" /\ cursor = Len(SelfText) /\ Len(text) = 22
    /\ parsed.val.t = "obj" /\ DOMAIN parsed.val.f = {<<"a">>, <<"b">>}
    /\ Len(parsed.val.f[<<"a">>].items) = 2

====
